---- MODULE Spec2Model ----
(***************************************************************************)
(* Request-execution pipeline of ComfyUI-Custom-Batchbox:                  *)
(*   - GenericAPIAdapter.execute          (adapters/generic.py)            *)
(*   - ConfigManager endpoint selection   (config_manager.py)              *)
(*   - execute_with_failover / get_adapter (independent_generator.py,      *)
(*     nodes.py)                                                           *)
(*   - IndependentGenerator.generate / DynamicImageNodeBase.process_batch  *)
(* Each component has its own specification (SpecExec, SpecFailover,       *)
(* SpecBatch, SpecRoundRobin); the variables of the other components stay  *)
(* at their idle values.                                                   *)
(***************************************************************************)
EXTENDS Integers, Sequences, FiniteSets, TLC

VARIABLES
    \* ---- GenericAPIAdapter.execute ----
    max_retries,     \* retry_config.max_retries
    attempt,         \* loop variable of "for attempt in range(max_retries + 1)"
    calls,           \* number of requests.request(...) calls performed
    sleeps,          \* sequence of the delays passed to time.sleep
    outcomes,        \* what each HTTP attempt produced, in order
    exec_pc,         \* "loop" while inside the for loop, "done" after return
    exec_result      \* the APIResponse returned by execute

execVars == <<max_retries, attempt, calls, sleeps, outcomes, exec_pc, exec_result>>

VARIABLES
    \* ---- configuration read through ConfigManager ----
    api_endpoints,       \* model_config["api_endpoints"], in configuration order
    api_keys,            \* names of the providers that exist and have an api_key
    auto_failover,       \* settings["auto_failover"]
    auto_endpoint_mode,  \* node_settings["auto_endpoint_mode"]
    \* ---- execute_with_failover ----
    _endpoint_index,      \* class attribute _endpoint_index[model_name] (0 when absent)
    mode,                \* requested mode
    endpoint_override,   \* "" when no endpoint is selected manually
    adapter,             \* endpoint info of the adapter returned by get_adapter
    alternatives,        \* alternatives not tried yet
    executed,            \* the adapter.execute calls made so far, in order
    fo_pc,               \* position inside execute_with_failover
    fo_result            \* the response returned by execute_with_failover

cfgVars == <<api_endpoints, api_keys, auto_failover, auto_endpoint_mode>>
foVars == <<_endpoint_index, mode, endpoint_override, adapter, alternatives,
            executed, fo_pc, fo_result>>

VARIABLES
    \* ---- IndependentGenerator.generate / DynamicImageNodeBase.process_batch ----
    orchestrator,     \* "generate" or "process_batch"
    batch_count,
    seed,             \* generate: the seed argument; process_batch: params["seed"]
    extra_params,     \* generate: the extra_params dict merged into params
    items,            \* per batch index: the task's position, its request and its return
    completed,        \* batch indices in the order in which the tasks finished
    successful_results, \* process_batch: tuples appended in as_completed order
    batch_pc,         \* "start", "running", "done"
    batch_return,     \* what the orchestrator returns (or that it raised)
    progress          \* generate: the calls of on_batch_complete, in order

batchVars == <<orchestrator, batch_count, seed, extra_params, items, completed,
               successful_results, batch_pc, batch_return, progress>>

VARIABLES
    \* ---- concurrent get_adapter calls in round_robin mode ----
    thread_pc,        \* per thread: "call", "selected" (index read), "returned"
    current_idx,      \* per thread: the local current_idx
    endpoint_info,    \* per thread: what get_endpoint_by_index returned
    start_idx         \* the counter when the batch was dispatched

rrVars == <<thread_pc, current_idx, endpoint_info, start_idx>>

VARIABLES
    \* ---- GeminiFilesCache.get_or_upload ----
    file_hash,        \* per calling thread: _compute_hash(image_bytes)
    up_pc,            \* per calling thread: position inside get_or_upload
    _upload_locks,    \* hashes that have a lock object in self._upload_locks
    lock_owner,       \* per hash: the thread holding its upload lock (0: free)
    files_cache,      \* the files_cache table: hash -> file_uri ("" when absent)
    uploads,          \* the _do_upload calls so far, in start order
    up_return,        \* per calling thread: the value returned
    _locks_lock       \* the thread inside "with self._locks_lock" (0: none)

upVars == <<file_hash, up_pc, _upload_locks, lock_owner, files_cache, uploads, up_return,
           _locks_lock>>

VARIABLES
    \* ---- GenericAPIAdapter._poll_for_result ----
    success_value,    \* mode_config["success_value"]
    failure_values,   \* failure statuses listed in mode_config (no code reads them)
    poll_pc,          \* "while", "sleep", "get", "returned"
    poll_elapsed,     \* time.time() - start_time, in seconds
    poll_status,      \* the status string of the last poll answer (None: <<"None">>)
    poll_result       \* the APIResponse returned

pollVars == <<success_value, failure_values, poll_pc, poll_elapsed, poll_status, poll_result>>

VARIABLES
    \* ---- execute: download of image URLs, APIAdapter._download_image ----
    dl_input,         \* the result as it was before the download step
    dl_result,        \* result (its images list grows)
    dl_url,           \* position in result.image_urls of the URL being downloaded
    dl_attempt,       \* loop variable of "for attempt in range(retries)"
    dl_log,           \* the requests.get calls made: URL, attempt, outcome
    dl_sleeps,        \* the delays passed to time.sleep
    dl_pc             \* "test", "download", "returned"

dlVars == <<dl_input, dl_result, dl_url, dl_attempt, dl_log, dl_sleeps, dl_pc>>

VARIABLES
    \* ---- IndependentGenerator._compute_params_hash on two requests ----
    request,          \* a request: model, prompt, batch_count, seed, extra_params
    other_request,    \* a second request, derived from the first
    changed,          \* how the second differs: "" (not yet), a field name, or "key order"
    hash_pc,          \* "new", "changed", "hashed"
    params_hash       \* the two hashes

hashVars == <<request, other_request, changed, hash_pc, params_hash>>

VARIABLES
    \* ---- one call of a request builder, the template engine or the ----
    \* ---- response-path extractor                                    ----
    fn_args,          \* the arguments and the configuration the call reads
    fn_result,        \* what the call returned
    fn_pc             \* "off", "called", "returned", "again" (called a second time)

fnVars == <<fn_args, fn_result, fn_pc>>

VARIABLES
    \* ---- TaskSyncService.sync_tasks ----
    task_ids,             \* per invocation: the task_ids argument
    sync_pc,              \* per invocation: position inside sync_tasks
    available_task_ids,   \* per invocation: the local list of claimed ids
    _syncing_task_ids,    \* self._syncing_task_ids
    _sync_lock,           \* the invocation inside "with self._sync_lock" (0: none)
    sync_return           \* per invocation: the value returned, and whether the query raised

syncVars == <<task_ids, sync_pc, available_task_ids, _syncing_task_ids, _sync_lock, sync_return>>

coreVars == <<execVars, cfgVars, foVars, batchVars, rrVars>>
moreVars == <<upVars, pollVars, dlVars, hashVars, fnVars, syncVars>>

----------------------------------------------------------------------------
(* Bounds *)
MaxRetryCfg == 3      \* largest retry_config.max_retries explored
MaxUrls == 2          \* most image URLs / inline images in one parsed response
MaxEndpoints == 3     \* most api_endpoints configured for the model
MaxBatch == 3         \* largest batch_count
MaxThreads == 3       \* most batch items calling get_adapter concurrently
MaxUploaders == 3     \* most threads calling get_or_upload concurrently
MaxKeys == 3          \* most keys in an extra_params dict
MaxListed == 2        \* most endpoints of a model whose priority or modes may be missing
MaxItems == 2         \* most batch items of one generate call whose params are followed
MaxSyncers == 2       \* most concurrent invocations of sync_tasks

----------------------------------------------------------------------------
(* Common helpers *)

Min(a, b) == IF a < b THEN a ELSE b

RECURSIVE Pow(_, _)
Pow(b, e) == IF e = 0 THEN 1 ELSE b * Pow(b, e - 1)

\* error_message of an APIResponse: the message family and the status code it embeds
Err(kind, code) == [kind |-> kind, code |-> code]
NoErr == Err("", 0)

\* dataclass APIResponse
APIResponse(success, images, image_urls, error_message, task_id, status) ==
    [success |-> success, images |-> images, image_urls |-> image_urls,
     error_message |-> error_message, task_id |-> task_id, status |-> status]

Failure(err) == APIResponse(FALSE, <<>>, <<>>, err, "", "")

NoResponse == APIResponse(FALSE, <<>>, <<>>, Err("none", 0), "", "")

----------------------------------------------------------------------------
(* batchbox_logger.py: retry configuration *)

Mut_RETRYABLE_STATUS_CODES == {429, 500, 502, 503, 504}
RETRYABLE_STATUS_CODES == {429, 502, 503, 504}

initial_delay == 1
exponential_base == 2
max_delay == 60

calculate_delay(a) == Min(initial_delay * Pow(exponential_base, a), max_delay)

----------------------------------------------------------------------------
(* GenericAPIAdapter.execute *)

\* HTTP status codes the provider may answer with
StatusCodes == {200, 201, 204, 301, 400, 401, 404, 429, 500, 502, 503, 504}

is_success(code) == 200 <= code /\ code < 300

\* "if attempt < retry_config.max_retries" (retry once more)
Mut_ShouldRetry(a, m) == a < m - 1
ShouldRetry(a, m) == a < m

Status(code) == [kind |-> "status", code |-> code]
Raised(kind) == [kind |-> kind, code |-> 0]

RetryableOutcome(o) ==
    \/ o.kind = "status" /\ o.code \in RETRYABLE_STATUS_CODES
    \/ o.kind \in {"Timeout", "ConnectionError"}

\* image_urls lists (URL i is the number i) and inline image lists
Urls == {[i \in 1..n |-> i] : n \in 1..MaxUrls}
Bytes == {[i \in 1..n |-> [src |-> "inline", n |-> i]] : n \in 1..MaxUrls}

\* parse_response: what a 2xx body can parse into
ParseResults ==
    {Failure(Err(k, 0)) : k \in {"Invalid JSON response", "No images found in response",
                                 "No candidates in Gemini response", "Gemini could not generate image",
                                 "Account error"}}
    \cup {APIResponse(TRUE, b, <<>>, NoErr, "", "") : b \in Bytes}
    \cup {APIResponse(TRUE, <<>>, u, NoErr, "", "") : u \in Urls}
    \cup {APIResponse(TRUE, b, u, NoErr, "", "") : b \in Bytes, u \in Urls}
    \cup {APIResponse(TRUE, <<>>, <<>>, NoErr, "task-1", "pending")}

\* _poll_for_result: the terminal outcomes of polling a pending task
PollResults ==
    {APIResponse(TRUE, <<>>, u, NoErr, "", "") : u \in Urls}
    \cup {APIResponse(TRUE, b, <<>>, NoErr, "", "") : b \in Bytes}
    \cup {Failure(Err(k, 0)) : k \in {"No images in completed task", "Task failed", "Polling timeout"}}

\* the images kept by the download loop: URL i contributes its bytes when
\* _download_image returned them (got[i]), and nothing when it returned None
RECURSIVE Downloaded(_, _)
Downloaded(urls, got) ==
    IF urls = <<>> THEN <<>>
    ELSE (IF got[1] THEN <<[src |-> "url", n |-> Head(urls)]>> ELSE <<>>) \o
         Downloaded(Tail(urls), [i \in 1..(Len(urls) - 1) |-> got[i + 1]])

DownloadOutcomes(urls) == [1..Len(urls) -> BOOLEAN]

\* _poll_for_result runs only for a pending task; otherwise the parsed result stands
PollOutcomes(parsed) ==
    IF parsed.task_id # "" /\ parsed.status = "pending" THEN PollResults ELSE {parsed}

\* lines 839-849: polling of a pending task, then download of URLs
Mut_AfterPoll(parsed, polled) == parsed
AfterPoll(parsed, polled) ==
    IF parsed.task_id # "" /\ parsed.status = "pending" THEN polled ELSE parsed

AfterDownload(r, got) ==
    IF r.success /\ r.image_urls # <<>> /\ r.images = <<>>
    THEN [r EXCEPT !.images = Downloaded(r.image_urls, got)]
    ELSE r

ExecInit ==
    /\ max_retries \in 0..MaxRetryCfg
    /\ attempt = 0
    /\ calls = 0
    /\ sleeps = <<>>
    /\ outcomes = <<>>
    /\ exec_pc = "loop"
    /\ exec_result = NoResponse

ExecIdle ==
    /\ max_retries = 0
    /\ attempt = 0
    /\ calls = 0
    /\ sleeps = <<>>
    /\ outcomes = <<>>
    /\ exec_pc = "idle"
    /\ exec_result = NoResponse

\* one more pass of the for loop after time.sleep(delay); continue
RetryStep(o) ==
    /\ calls' = calls + 1
    /\ outcomes' = Append(outcomes, o)
    /\ sleeps' = Append(sleeps, calculate_delay(attempt))
    /\ attempt' = attempt + 1
    /\ UNCHANGED <<max_retries, exec_pc, exec_result>>

\* return of execute
ReturnStep(o, r) ==
    /\ calls' = calls + 1
    /\ outcomes' = Append(outcomes, o)
    /\ exec_result' = r
    /\ exec_pc' = "done"
    /\ UNCHANGED <<max_retries, attempt, sleeps>>

\* the response has a retryable status (lines 811-830)
ExecRetryableStatus(code) ==
    /\ exec_pc = "loop"
    /\ attempt <= max_retries
    /\ code \in RETRYABLE_STATUS_CODES
    /\ IF ShouldRetry(attempt, max_retries)
       THEN RetryStep(Status(code))
       ELSE ReturnStep(Status(code), Failure(Err("HTTP", code)))

\* the response has a non-2xx status that is not retryable (lines 825-830)
ExecTerminalStatus(code) ==
    /\ exec_pc = "loop"
    /\ attempt <= max_retries
    /\ code \notin RETRYABLE_STATUS_CODES
    /\ ~is_success(code)
    /\ ReturnStep(Status(code), Failure(Err("HTTP", code)))

\* the mutation retries a 2xx answer whose body parses into a failure
Mut_ExecSuccessStatus(code, parsed, polled) ==
    /\ exec_pc = "loop"
    /\ attempt <= max_retries
    /\ code \notin RETRYABLE_STATUS_CODES
    /\ is_success(code)
    /\ IF ~parsed.success /\ ShouldRetry(attempt, max_retries)
       THEN RetryStep(Status(code))
       ELSE ReturnStep(Status(code), AfterPoll(parsed, polled))
\* the response has a 2xx status: parse, poll, download, return (lines 832-859)
ExecSuccessStatus(code, parsed, polled) ==
    /\ exec_pc = "loop"
    /\ attempt <= max_retries
    /\ code \notin RETRYABLE_STATUS_CODES
    /\ is_success(code)
    /\ LET r == AfterPoll(parsed, polled)
       IN  \E got \in DownloadOutcomes(r.image_urls) :
               ReturnStep(Status(code), AfterDownload(r, got))

\* requests.Timeout (lines 861-872)
ExecTimeout ==
    /\ exec_pc = "loop"
    /\ attempt <= max_retries
    /\ IF ShouldRetry(attempt, max_retries)
       THEN RetryStep(Raised("Timeout"))
       ELSE ReturnStep(Raised("Timeout"), Failure(Err("Request timeout", 0)))

\* requests.ConnectionError (lines 874-885)
ExecConnectionError ==
    /\ exec_pc = "loop"
    /\ attempt <= max_retries
    /\ IF ShouldRetry(attempt, max_retries)
       THEN RetryStep(Raised("ConnectionError"))
       ELSE ReturnStep(Raised("ConnectionError"), Failure(Err("Connection error", 0)))

\* any other exception raised inside the try block (lines 887-892)
ExecOtherException ==
    /\ exec_pc = "loop"
    /\ attempt <= max_retries
    /\ ReturnStep(Raised("Exception"), Failure(Err("Request failed", 0)))

----------------------------------------------------------------------------
(* ConfigManager: endpoints of one model *)

Providers == {"pA", "pB"}
Priorities == {1, 2}
Modes == {"text2img", "img2img"}
\* the modes an endpoint configures (each with a non-empty "endpoint" path)
ModeSets == {{"text2img", "img2img"}, {"img2img"}}
DisplayNames == {""}

EndpointConfigs ==
    [provider : Providers, priority : Priorities, modes : ModeSets,
     display_name : DisplayNames]

\* an endpoint info dict {"provider", "config", "endpoint_config"}: the endpoint
\* (its position in api_endpoints) and the mode whose ModeConfig is used
Info(i, m) == [ep |-> i, config |-> m]
None == Info(0, "")

ProviderOf(i) == api_endpoints[i].provider
NameOf(i) ==
    IF api_endpoints[i].display_name # "" THEN api_endpoints[i].display_name
    ELSE api_endpoints[i].provider
HasKey(i) == ProviderOf(i) \in api_keys

\* the priority field of an endpoint that has no "priority" key
NoPriority == -1

\* x.get("priority", 999)
Mut_priority_of(i) ==
    IF api_endpoints[i].priority = NoPriority THEN 0 ELSE api_endpoints[i].priority
priority_of(i) ==
    IF api_endpoints[i].priority = NoPriority THEN 999 ELSE api_endpoints[i].priority

\* sorted(endpoints, key=priority) is stable: insert after equal priorities
RECURSIVE InsertByPriority(_, _)
InsertByPriority(sorted, i) ==
    IF sorted = <<>> THEN <<i>>
    ELSE IF priority_of(Head(sorted)) <= priority_of(i)
         THEN <<Head(sorted)>> \o InsertByPriority(Tail(sorted), i)
         ELSE <<i>> \o sorted

RECURSIVE SortFrom(_, _)
SortFrom(k, acc) ==
    IF k > Len(api_endpoints) THEN acc
    ELSE SortFrom(k + 1, InsertByPriority(acc, k))

Mut_get_api_endpoints == [i \in 1..Len(api_endpoints) |-> i]
get_api_endpoints == SortFrom(1, <<>>)

fallback_mode(m) == IF m = "text2img" THEN "img2img" ELSE "text2img"

\* "try requested mode first", then "fallback to other mode if available"
Mut_ModeOrFallback(i, m) == IF m \in api_endpoints[i].modes THEN m ELSE ""
ModeOrFallback(i, m) ==
    IF m \in api_endpoints[i].modes THEN m
    ELSE IF fallback_mode(m) \in api_endpoints[i].modes THEN fallback_mode(m)
    ELSE ""

get_best_endpoint(m) ==
    LET usable == SelectSeq(get_api_endpoints,
                            LAMBDA i : HasKey(i) /\ ModeOrFallback(i, m) # "")
    IN  IF usable = <<>> THEN None
        ELSE Info(usable[1], ModeOrFallback(usable[1], m))

\* the mutation takes the named endpoint although its provider has no API key
Mut_get_endpoint_by_name(name, m) ==
    LET named == SelectSeq(get_api_endpoints,
                           LAMBDA i : NameOf(i) = name /\ ModeOrFallback(i, m) # "")
    IN  IF named = <<>> THEN get_best_endpoint(m)
        ELSE Info(named[1], ModeOrFallback(named[1], m))
get_endpoint_by_name(name, m) ==
    LET named == SelectSeq(get_api_endpoints,
                           LAMBDA i : NameOf(i) = name /\ HasKey(i)
                                      /\ ModeOrFallback(i, m) # "")
    IN  IF named = <<>> THEN get_best_endpoint(m)
        ELSE Info(named[1], ModeOrFallback(named[1], m))

get_endpoint_by_index(index, m) ==
    LET endpoints == get_api_endpoints
    IN  IF endpoints = <<>> THEN None
        ELSE LET ep == endpoints[(index % Len(endpoints)) + 1]
             IN  IF ~HasKey(ep) THEN get_best_endpoint(m)
                 ELSE IF ModeOrFallback(ep, m) # "" THEN Info(ep, ModeOrFallback(ep, m))
                 ELSE get_best_endpoint(m)

\* exclude_provider is "" when there is no adapter (None in the code)
AltFilter(i, m, exclude_provider) ==
    /\ ProviderOf(i) # exclude_provider
    /\ HasKey(i)
    /\ m \in api_endpoints[i].modes

Mut_get_alternative_endpoints(m, exclude_provider) ==
    LET eps == SelectSeq(get_api_endpoints, LAMBDA i : HasKey(i) /\ m \in api_endpoints[i].modes)
    IN  [k \in 1..Len(eps) |-> Info(eps[k], m)]
get_alternative_endpoints(m, exclude_provider) ==
    LET eps == SelectSeq(get_api_endpoints, LAMBDA i : AltFilter(i, m, exclude_provider))
    IN  [k \in 1..Len(eps) |-> Info(eps[k], m)]

----------------------------------------------------------------------------
(* IndependentGenerator.get_adapter / execute_with_failover               *)
(* (DynamicImageNodeBase.get_adapter in nodes.py is the round_robin branch *)
(* taken unconditionally; its execute_with_failover is the same code.)     *)

Overrides == {""} \cup Providers

\* the endpoint chosen by get_adapter when the counter holds idx
get_adapter(m, override, idx) ==
    IF override # "" THEN get_endpoint_by_name(override, m)
    ELSE IF auto_endpoint_mode = "round_robin"
         THEN (IF get_api_endpoints = <<>> THEN None
               ELSE get_endpoint_by_index(idx, m))
         ELSE get_best_endpoint(m)

\* the counter after get_adapter: rotated only in the round_robin branch
Mut_rotate(override, idx) ==
    IF override = "" /\ auto_endpoint_mode = "round_robin" /\ get_api_endpoints # <<>>
    THEN idx + 1
    ELSE idx
rotate(override, idx) ==
    IF override = "" /\ auto_endpoint_mode = "round_robin" /\ get_api_endpoints # <<>>
    THEN (idx + 1) % Len(get_api_endpoints)
    ELSE idx

\* "if endpoint_override: auto_failover = False"
Mut_failover_enabled(override) == auto_failover
failover_enabled(override) == IF override # "" THEN FALSE ELSE auto_failover

Call(info, ok) == [ep |-> info.ep, config |-> info.config, ok |-> ok]

\* the response of a successful adapter.execute on endpoint ep, and the final failure
SuccessBy(ep) == [success |-> TRUE, by |-> ep, error_message |-> ""]
Mut_AllProvidersFailed == [success |-> FALSE, by |-> 0, error_message |-> ""]
AllProvidersFailed == [success |-> FALSE, by |-> 0, error_message |-> "All providers failed"]
NoFoResult == [success |-> FALSE, by |-> 0, error_message |-> "none"]

\* provider names are interchangeable: the first endpoint listed is pA's
FoInit ==
    /\ api_endpoints \in {eps \in UNION {[1..n -> EndpointConfigs] : n \in 0..MaxEndpoints} :
                              eps # <<>> => eps[1].provider = "pA"}
    /\ api_keys \in SUBSET Providers
    /\ auto_failover \in BOOLEAN
    /\ auto_endpoint_mode \in {"priority", "round_robin"}
    /\ _endpoint_index = 0
    /\ mode = "text2img"
    /\ endpoint_override = ""
    /\ adapter = None
    /\ alternatives = <<>>
    /\ executed = <<>>
    /\ fo_pc = "idle"
    /\ fo_result = NoFoResult

\* endpoints as a configuration file may list them: the priority may be
\* missing, and an endpoint may configure no mode at all
ListedPriorities == {1, 1000, NoPriority}
ListedModeSets == {Modes, {}}
ListedEndpoints ==
    [provider : Providers, priority : ListedPriorities, modes : ListedModeSets,
     display_name : DisplayNames]

\* any configuration, any settings; the counter is 0 when the process starts
PriorityInit ==
    /\ api_endpoints \in UNION {[1..n -> ListedEndpoints] : n \in 0..MaxListed}
    /\ api_keys \in SUBSET Providers
    /\ auto_failover = TRUE
    /\ auto_endpoint_mode \in {"priority", "round_robin"}
    /\ _endpoint_index = 0
    /\ mode = "text2img"
    /\ endpoint_override = ""
    /\ adapter = None
    /\ alternatives = <<>>
    /\ executed = <<>>
    /\ fo_pc = "idle"
    /\ fo_result = NoFoResult

FoIdle ==
    /\ api_endpoints = <<>>
    /\ api_keys = {}
    /\ auto_failover = TRUE
    /\ auto_endpoint_mode = "priority"
    /\ _endpoint_index = 0
    /\ mode = "text2img"
    /\ endpoint_override = ""
    /\ adapter = None
    /\ alternatives = <<>>
    /\ executed = <<>>
    /\ fo_pc = "off"
    /\ fo_result = NoFoResult

\* lines 123-150 once the primary has failed or no adapter exists: the list of
\* alternatives is fetched; with nothing to try the call returns the failure
AfterPrimary(info, override, m) ==
    LET alts == IF failover_enabled(override)
                THEN get_alternative_endpoints(m, IF info = None THEN "" ELSE ProviderOf(info.ep))
                ELSE <<>>
    IN  /\ alternatives' = alts
        /\ IF alts = <<>>
           THEN fo_pc' = "done" /\ fo_result' = AllProvidersFailed
           ELSE fo_pc' = "alternatives" /\ fo_result' = NoFoResult

\* lines 107-116: settings are read and get_adapter chooses the primary
FoGetAdapter(m, override) ==
    /\ fo_pc = "idle"
    /\ mode' = m
    /\ endpoint_override' = override
    /\ executed' = <<>>
    /\ LET info == get_adapter(m, override, _endpoint_index)
       IN  /\ adapter' = info
           /\ _endpoint_index' = rotate(override, _endpoint_index)
           /\ IF info # None
              THEN fo_pc' = "primary" /\ alternatives' = <<>> /\ fo_result' = NoFoResult
              ELSE AfterPrimary(info, override, m)
    /\ UNCHANGED cfgVars

\* lines 117-121: adapter.execute on the primary
FoExecutePrimary(ok) ==
    /\ fo_pc = "primary"
    /\ executed' = Append(executed, Call(adapter, ok))
    /\ IF ok
       THEN fo_pc' = "done" /\ fo_result' = SuccessBy(adapter.ep) /\ alternatives' = <<>>
       ELSE AfterPrimary(adapter, endpoint_override, mode)
    /\ UNCHANGED <<_endpoint_index, mode, endpoint_override, adapter>>
    /\ UNCHANGED cfgVars

\* lines 129-150: one pass of "for alt in alternatives"
FoExecuteAlternative(ok) ==
    /\ fo_pc = "alternatives"
    /\ alternatives # <<>>
    /\ executed' = Append(executed, Call(Head(alternatives), ok))
    /\ alternatives' = Tail(alternatives)
    /\ IF ok
       THEN fo_pc' = "done" /\ fo_result' = SuccessBy(Head(alternatives).ep)
       ELSE IF Tail(alternatives) = <<>>
            THEN fo_pc' = "done" /\ fo_result' = AllProvidersFailed
            ELSE fo_pc' = "alternatives" /\ fo_result' = NoFoResult
    /\ UNCHANGED <<_endpoint_index, mode, endpoint_override, adapter>>
    /\ UNCHANGED cfgVars

\* update_node_settings({"auto_endpoint_mode": strategy}) between two calls;
\* the class-level counter is kept
UpdateNodeSettings(strategy) ==
    /\ fo_pc = "idle"
    /\ auto_endpoint_mode # strategy
    /\ auto_endpoint_mode' = strategy
    /\ UNCHANGED <<api_endpoints, api_keys, auto_failover, foVars>>

\* the caller has the response; the next call starts from the persisted counter
FoReturn ==
    /\ fo_pc = "done"
    /\ fo_pc' = "idle"
    /\ mode' = "text2img"
    /\ endpoint_override' = ""
    /\ adapter' = None
    /\ alternatives' = <<>>
    /\ executed' = <<>>
    /\ fo_result' = NoFoResult
    /\ UNCHANGED _endpoint_index
    /\ UNCHANGED cfgVars

----------------------------------------------------------------------------
(* IndependentGenerator.generate and DynamicImageNodeBase.process_batch *)

Seeds == {0, 100}
\* extra_params dicts: empty, one with a seed, one without
ExtraParams == {<<>>, [seed |-> 42], [size |-> 1024]}

\* params = {"prompt": prompt, "seed": seed}; params.update(extra_params)
merged_params(s, extra) == extra @@ [prompt |-> 1, seed |-> s]

\* process_single_batch: current_params for batch index i, from the base seed
\* (generate: the seed argument; process_batch: int(params["seed"]))
current_params(params, base, i) ==
    LET current_seed == IF base > 0 THEN base + i ELSE 0
    IN  IF current_seed > 0 THEN [params EXCEPT !.seed = current_seed] ELSE params

\* what execute_with_failover gives one item: a successful response whose
\* images decode ("ok") or not ("bad"), a failure response, or an exception
ImageLists == {<<>>, <<"ok">>, <<"bad">>, <<"bad", "ok">>}
ItemOutcomes ==
    {[kind |-> "success", images |-> imgs] : imgs \in ImageLists}
    \cup {[kind |-> "failure", images |-> <<>>], [kind |-> "exception", images |-> <<>>]}

\* log lines: "Batch {i+1} failed: ...", "Image decode error: ...", "Batch error: ..."
FailedLine(i) == [line |-> "Batch failed", batch |-> i + 1]
DecodeErrorLine == [line |-> "Image decode error", batch |-> 0]
BatchErrorLine == [line |-> "Batch error", batch |-> 0]

\* the outputs (previews / tensors) of item i: one per image that decodes
RECURSIVE Decoded(_, _, _)
Decoded(i, imgs, k) ==
    IF k > Len(imgs) THEN <<>>
    ELSE (IF imgs[k] = "ok" THEN <<[item |-> i, image |-> k]>> ELSE <<>>)
         \o Decoded(i, imgs, k + 1)

RECURSIVE DecodeLog(_, _)
DecodeLog(imgs, k) ==
    IF k > Len(imgs) THEN <<>>
    ELSE (IF imgs[k] = "bad" THEN <<DecodeErrorLine>> ELSE <<>>) \o DecodeLog(imgs, k + 1)

\* the value of the task of item i: the tuple (batch_idx, outputs, batch_log),
\* or the exception that execute_with_failover raised
TaskReturn(i, outcome) ==
    IF outcome.kind = "exception"
    THEN [kind |-> "exception", idx |-> i, outputs |-> <<>>, log |-> <<>>]
    ELSE IF outcome.kind = "success"
    THEN [kind |-> "tuple", idx |-> i, outputs |-> Decoded(i, outcome.images, 1),
          log |-> DecodeLog(outcome.images, 1)]
    ELSE [kind |-> "tuple", idx |-> i, outputs |-> <<>>, log |-> <<FailedLine(i)>>]

NotStarted == [pc |-> "new", request_seed |-> 0, outcome |-> [kind |-> "none", images |-> <<>>]]

\* key=lambda x: x[0] if isinstance(x, tuple) else 999
SortKey(r) == IF r.kind = "tuple" THEN r.idx ELSE 999

\* sorted(...) / list.sort(...) by SortKey: stable
RECURSIVE InsertByKey(_, _)
InsertByKey(sorted, r) ==
    IF sorted = <<>> THEN <<r>>
    ELSE IF SortKey(Head(sorted)) <= SortKey(r)
         THEN <<Head(sorted)>> \o InsertByKey(Tail(sorted), r)
         ELSE <<r>> \o sorted

RECURSIVE SortedFrom(_, _, _)
SortedFrom(rs, k, acc) ==
    IF k > Len(rs) THEN acc ELSE SortedFrom(rs, k + 1, InsertByKey(acc, rs[k]))

Mut_SortByIndex(rs) == rs
SortByIndex(rs) == SortedFrom(rs, 1, <<>>)

\* asyncio.gather(*tasks, return_exceptions=True): the values in task order
gather == [k \in 1..batch_count |-> TaskReturn(k - 1, items[k - 1].outcome)]

RECURSIVE AllOutputs(_)
AllOutputs(rs) ==
    IF rs = <<>> THEN <<>> ELSE Head(rs).outputs \o AllOutputs(Tail(rs))

\* generate, lines 269-277: exceptions become "Batch error" lines
RECURSIVE GenerateLog(_)
GenerateLog(rs) ==
    IF rs = <<>> THEN <<>>
    ELSE (IF Head(rs).kind = "exception" THEN <<BatchErrorLine>> ELSE Head(rs).log)
         \o GenerateLog(Tail(rs))

\* process_batch, lines 335-340: only the collected tuples are read
RECURSIVE ProcessBatchLog(_)
ProcessBatchLog(rs) ==
    IF rs = <<>> THEN <<>> ELSE Head(rs).log \o ProcessBatchLog(Tail(rs))

\* "if not all_previews" / "if not all_tensors": the failure return
Mut_generation_failed(outputs, log) == log # <<>>
generation_failed(outputs, log) == outputs = <<>>

\* the failure return carries no item output (generate: "preview_images": [],
\* process_batch: a black placeholder image)
Returned(outputs, log) ==
    [raised |-> FALSE,
     success |-> ~generation_failed(outputs, log),
     outputs |-> IF generation_failed(outputs, log) THEN <<>> ELSE outputs,
     log |-> log]

NoReturn == [raised |-> FALSE, success |-> FALSE, outputs |-> <<>>, log |-> <<>>]

BatchInit ==
    /\ orchestrator \in {"generate", "process_batch"}
    /\ batch_count \in 1..MaxBatch
    /\ seed \in Seeds
    /\ extra_params \in (IF orchestrator = "generate" THEN ExtraParams ELSE {<<>>})
    /\ items = [i \in 0..(batch_count - 1) |-> NotStarted]
    /\ completed = <<>>
    /\ successful_results = <<>>
    /\ batch_pc = "start"
    /\ batch_return = NoReturn
    /\ progress = <<>>

BatchIdle ==
    /\ orchestrator = "none"
    /\ batch_count = 0
    /\ seed = 0
    /\ extra_params = <<>>
    /\ items = <<>>
    /\ completed = <<>>
    /\ successful_results = <<>>
    /\ batch_pc = "off"
    /\ batch_return = NoReturn
    /\ progress = <<>>

\* the params are built and every item is dispatched at once
\* (generate lines 181-189, 266; process_batch lines 252-256, 318-319)
Dispatch ==
    /\ batch_pc = "start"
    /\ LET params == merged_params(seed, extra_params)
       IN  items' = [i \in 0..(batch_count - 1) |->
                       [pc |-> "running",
                        request_seed |-> current_params(params, seed, i).seed,
                        outcome |-> NotStarted.outcome]]
    /\ batch_pc' = "running"
    /\ UNCHANGED <<orchestrator, batch_count, seed, extra_params, completed,
                   successful_results, batch_return, progress>>

\* generate, lines 260-265: the callback is awaited once execute_with_failover
\* has returned a response; a task that raised never gets there
on_batch_complete_called(o) == orchestrator = "generate" /\ o.kind # "exception"

\* on_batch_complete(batch_idx, batch_count, batch_previews)
ProgressCall(i, o) ==
    [batch_idx |-> i, total |-> batch_count, previews |-> TaskReturn(i, o).outputs]

\* the task of item i finishes with outcome o; in process_batch the future is
\* collected by as_completed: its tuple is appended, its exception only printed;
\* in generate the callback is awaited, and when it raises (cb_raises) the
\* exception is caught and printed
ItemCompletes(i, o, cb_raises) ==
    /\ batch_pc = "running"
    /\ i \in DOMAIN items
    /\ items[i].pc = "running"
    /\ cb_raises => on_batch_complete_called(o)
    /\ progress' = IF on_batch_complete_called(o)
                   THEN Append(progress, ProgressCall(i, o))
                   ELSE progress
    /\ items' = [items EXCEPT ![i] = [@ EXCEPT !.pc = "completed", !.outcome = o]]
    /\ completed' = Append(completed, i)
    /\ successful_results' =
          IF orchestrator = "process_batch" /\ o.kind # "exception"
          THEN Append(successful_results, TaskReturn(i, o))
          ELSE successful_results
    /\ UNCHANGED <<orchestrator, batch_count, seed, extra_params, batch_pc, batch_return>>

\* generate, lines 267-294
GenerateCollects ==
    /\ batch_pc = "running"
    /\ orchestrator = "generate"
    /\ \A i \in DOMAIN items : items[i].pc = "completed"
    /\ LET results == SortByIndex(gather)
       IN  batch_return' = Returned(AllOutputs(results), GenerateLog(results))
    /\ batch_pc' = "done"
    /\ UNCHANGED <<orchestrator, batch_count, seed, extra_params, items, completed,
                   successful_results, progress>>

\* process_batch, lines 326-377
ProcessBatchCollects ==
    /\ batch_pc = "running"
    /\ orchestrator = "process_batch"
    /\ \A i \in DOMAIN items : items[i].pc = "completed"
    /\ LET results == SortByIndex(successful_results)
       IN  batch_return' = Returned(AllOutputs(results), ProcessBatchLog(results))
    /\ batch_pc' = "done"
    /\ UNCHANGED <<orchestrator, batch_count, seed, extra_params, items, completed,
                   successful_results, progress>>

----------------------------------------------------------------------------
(* Round-robin counter under concurrent batch items *)

Threads == 1..MaxThreads

\* a model whose n endpoints are all usable
UsableEndpoints(n) ==
    [i \in 1..n |-> [provider |-> IF i % 2 = 1 THEN "pA" ELSE "pB", priority |-> 1,
                     modes |-> Modes, display_name |-> ""]]

RRInit ==
    /\ api_endpoints \in {UsableEndpoints(n) : n \in 1..MaxEndpoints}
    /\ api_keys = Providers
    /\ auto_failover = TRUE
    /\ auto_endpoint_mode = "round_robin"
    /\ _endpoint_index = 0
    /\ mode = "text2img"
    /\ endpoint_override = ""
    /\ adapter = None
    /\ alternatives = <<>>
    /\ executed = <<>>
    /\ fo_pc = "off"
    /\ fo_result = NoFoResult
    /\ thread_pc = [t \in Threads |-> "idle"]
    /\ current_idx = [t \in Threads |-> 0]
    /\ endpoint_info = [t \in Threads |-> None]
    /\ start_idx = 0

\* models whose endpoints are all usable for the requested mode, in any
\* priority order
AllUsable(eps) == \A i \in 1..Len(eps) : "text2img" \in eps[i].modes

SequentialInit ==
    /\ api_endpoints \in {eps \in UNION {[1..n -> EndpointConfigs] : n \in 1..MaxEndpoints} :
                              AllUsable(eps)}
    /\ api_keys = Providers
    /\ auto_failover = TRUE
    /\ auto_endpoint_mode = "round_robin"
    /\ _endpoint_index = 0
    /\ mode = "text2img"
    /\ endpoint_override = ""
    /\ adapter = None
    /\ alternatives = <<>>
    /\ executed = <<>>
    /\ fo_pc = "off"
    /\ fo_result = NoFoResult
    /\ thread_pc = [t \in Threads |-> "idle"]
    /\ current_idx = [t \in Threads |-> 0]
    /\ endpoint_info = [t \in Threads |-> None]
    /\ start_idx = 0

RRIdle ==
    /\ thread_pc = <<>>
    /\ current_idx = <<>>
    /\ endpoint_info = <<>>
    /\ start_idx = 0

\* a batch of k items is dispatched: k threads are about to call get_adapter
RRDispatch(k) ==
    /\ \A t \in Threads : thread_pc[t] \in {"idle", "returned"}
    /\ thread_pc' = [t \in Threads |-> IF t <= k THEN "call" ELSE "idle"]
    /\ current_idx' = [t \in Threads |-> 0]
    /\ endpoint_info' = [t \in Threads |-> None]
    /\ start_idx' = _endpoint_index
    /\ UNCHANGED <<cfgVars, foVars>>

\* lines 78-79: current_idx = _endpoint_index.get(model_name, 0), then
\* get_endpoint_by_index(model_name, current_idx, mode)
RRSelect(t) ==
    /\ thread_pc[t] = "call"
    /\ current_idx' = [current_idx EXCEPT ![t] = _endpoint_index]
    /\ endpoint_info' = [endpoint_info EXCEPT
                           ![t] = get_endpoint_by_index(_endpoint_index, mode)]
    /\ thread_pc' = [thread_pc EXCEPT ![t] = "selected"]
    /\ UNCHANGED <<cfgVars, foVars, start_idx>>

\* line 80: _endpoint_index[model_name] = (current_idx + 1) % len(endpoints)
RRStore(t) ==
    /\ thread_pc[t] = "selected"
    /\ _endpoint_index' = (current_idx[t] + 1) % Len(get_api_endpoints)
    /\ thread_pc' = [thread_pc EXCEPT ![t] = "returned"]
    /\ UNCHANGED <<cfgVars, mode, endpoint_override, adapter, alternatives, executed,
                   fo_pc, fo_result, current_idx, endpoint_info, start_idx>>

\* lines 65-83 run by caller t with no other call in between: the callers
\* dispatched together call get_adapter one after the other
GetAdapterSequential(t) ==
    /\ thread_pc[t] = "call"
    /\ \A u \in Threads : u < t => thread_pc[u] # "call"
    /\ current_idx' = [current_idx EXCEPT ![t] = _endpoint_index]
    /\ endpoint_info' = [endpoint_info EXCEPT
                           ![t] = get_adapter(mode, endpoint_override, _endpoint_index)]
    /\ _endpoint_index' = rotate(endpoint_override, _endpoint_index)
    /\ thread_pc' = [thread_pc EXCEPT ![t] = "returned"]
    /\ UNCHANGED <<cfgVars, mode, endpoint_override, adapter, alternatives, executed,
                   fo_pc, fo_result, start_idx>>

----------------------------------------------------------------------------
(* GeminiFilesCache.get_or_upload *)

Uploaders == 1..MaxUploaders
Hashes == {"h1", "h2"}

\* the file_uri the Files API returns for the n-th upload of hash h
FileUri(h, n) == <<h, n>>
NoUri == <<>>

\* GeminiFilesCacheDB.get: the cached uri (None when absent)
db_get(h) == files_cache[h]

\* threading.Lock: the upload lock of hash h can be acquired
Mut_lock_free(h) == TRUE
lock_free(h) == lock_owner[h] = 0

UpInit ==
    /\ file_hash \in [Uploaders -> Hashes]
    /\ up_pc = [t \in Uploaders |-> "call"]
    /\ _upload_locks = {}
    /\ lock_owner = [h \in Hashes |-> 0]
    /\ files_cache = [h \in Hashes |-> NoUri]
    /\ uploads = <<>>
    /\ up_return = [t \in Uploaders |-> NoUri]
    /\ _locks_lock = 0

UpIdle ==
    /\ file_hash = <<>>
    /\ up_pc = <<>>
    /\ _upload_locks = {}
    /\ lock_owner = <<>>
    /\ files_cache = <<>>
    /\ uploads = <<>>
    /\ up_return = <<>>
    /\ _locks_lock = 0

\* lines 152-156: the cache check without lock
UpFastPath(t) ==
    /\ up_pc[t] = "call"
    /\ IF db_get(file_hash[t]) # NoUri
       THEN /\ up_pc' = [up_pc EXCEPT ![t] = "returned"]
            /\ up_return' = [up_return EXCEPT ![t] = db_get(file_hash[t])]
       ELSE /\ up_pc' = [up_pc EXCEPT ![t] = "locks"]
            /\ UNCHANGED up_return
    /\ UNCHANGED <<file_hash, _upload_locks, lock_owner, files_cache, uploads, _locks_lock>>

\* threading.Lock: the lock of the lock table can be acquired
Mut_locks_lock_free == _locks_lock = 0 /\ \A h \in Hashes : lock_owner[h] = 0
locks_lock_free == _locks_lock = 0

\* line 160: with self._locks_lock (blocks while another thread is inside)
UpEnterLocks(t) ==
    /\ up_pc[t] = "locks"
    /\ locks_lock_free
    /\ _locks_lock' = t
    /\ up_pc' = [up_pc EXCEPT ![t] = "lookup"]
    /\ UNCHANGED <<file_hash, _upload_locks, lock_owner, files_cache, uploads, up_return>>

\* lines 161-163: under _locks_lock, create the lock of the hash when
\* missing and take it from the table; leaving the block releases _locks_lock
UpGetLock(t) ==
    /\ up_pc[t] = "lookup"
    /\ _upload_locks' = _upload_locks \cup {file_hash[t]}
    /\ _locks_lock' = IF _locks_lock = t THEN 0 ELSE _locks_lock
    /\ up_pc' = [up_pc EXCEPT ![t] = "wait"]
    /\ UNCHANGED <<file_hash, lock_owner, files_cache, uploads, up_return>>

\* line 165: with upload_lock (blocks while another thread holds it)
UpAcquire(t) ==
    /\ up_pc[t] = "wait"
    /\ lock_free(file_hash[t])
    /\ lock_owner' = [lock_owner EXCEPT ![file_hash[t]] = t]
    /\ up_pc' = [up_pc EXCEPT ![t] = "locked"]
    /\ UNCHANGED <<file_hash, _upload_locks, files_cache, uploads, up_return, _locks_lock>>

\* lines 167-173: cache check under the lock; a hit returns (releasing the
\* lock), a miss enters _do_upload
UpRecheck(t) ==
    /\ up_pc[t] = "locked"
    /\ IF db_get(file_hash[t]) # NoUri
       THEN /\ up_pc' = [up_pc EXCEPT ![t] = "returned"]
            /\ up_return' = [up_return EXCEPT ![t] = db_get(file_hash[t])]
            /\ lock_owner' = [lock_owner EXCEPT
                                ![file_hash[t]] = IF @ = t THEN 0 ELSE @]
            /\ UNCHANGED uploads
       ELSE /\ up_pc' = [up_pc EXCEPT ![t] = "uploading"]
            /\ uploads' = Append(uploads, [thread |-> t, hash |-> file_hash[t],
                                           status |-> "running"])
            /\ UNCHANGED <<up_return, lock_owner>>
    /\ UNCHANGED <<file_hash, _upload_locks, files_cache, _locks_lock>>

\* the position in uploads of the running upload of thread t
RunningUpload(t) ==
    CHOOSE k \in 1..Len(uploads) : uploads[k].thread = t /\ uploads[k].status = "running"

\* _do_upload finishes: with a file_uri, which is cached and returned, or with
\* None (HTTP error, missing uri, timeout, exception); the lock is released
UpDoUpload(t, ok) ==
    /\ up_pc[t] = "uploading"
    /\ LET k == RunningUpload(t)
           uri == FileUri(file_hash[t], k)
       IN  /\ uploads' = [uploads EXCEPT ![k].status = IF ok THEN "cached" ELSE "failed"]
           /\ files_cache' = IF ok THEN [files_cache EXCEPT ![file_hash[t]] = uri]
                             ELSE files_cache
           /\ up_return' = [up_return EXCEPT ![t] = IF ok THEN uri ELSE NoUri]
    /\ lock_owner' = [lock_owner EXCEPT ![file_hash[t]] = IF @ = t THEN 0 ELSE @]
    /\ up_pc' = [up_pc EXCEPT ![t] = "returned"]
    /\ UNCHANGED <<file_hash, _upload_locks, _locks_lock>>

----------------------------------------------------------------------------
(* OSSImageCache.get_or_upload, called by _build_openai_request for every  *)
(* batch item (the items share the upload list; each runs in its own       *)
(* thread). The table image_cache is files_cache; there is no lock.        *)

\* lines 266, 297-301: the public URL is derived from the hash alone
public_url(h) == <<"oss", h>>

OssInit ==
    /\ file_hash \in [Uploaders -> Hashes]
    /\ up_pc = [t \in Uploaders |-> "call"]
    /\ _upload_locks = {}
    /\ lock_owner = [h \in Hashes |-> 0]
    /\ files_cache \in [Hashes -> {NoUri}] \cup {[h \in Hashes |-> public_url(h)]}
    /\ uploads = <<>>
    /\ up_return = [t \in Uploaders |-> NoUri]
    /\ _locks_lock = 0

\* lines 256-262: hash the bytes and look the hash up; a hit is returned
OssCheckCache(t) ==
    /\ up_pc[t] = "call"
    /\ IF db_get(file_hash[t]) # NoUri
       THEN /\ up_pc' = [up_pc EXCEPT ![t] = "returned"]
            /\ up_return' = [up_return EXCEPT ![t] = db_get(file_hash[t])]
            /\ UNCHANGED uploads
       ELSE /\ up_pc' = [up_pc EXCEPT ![t] = "uploading"]
            /\ uploads' = Append(uploads, [thread |-> t, hash |-> file_hash[t],
                                           status |-> "running"])
            /\ UNCHANGED up_return
    /\ UNCHANGED <<file_hash, _upload_locks, lock_owner, files_cache, _locks_lock>>

\* lines 264-311: put_object (or resumable_upload) ends; on success the URL
\* is stored with INSERT OR REPLACE and returned, on any exception None is
\* returned and the caller falls back to multipart
OssPutObject(t, ok) ==
    /\ up_pc[t] = "uploading"
    /\ uploads' = [uploads EXCEPT ![RunningUpload(t)].status =
                                      IF ok THEN "cached" ELSE "failed"]
    /\ files_cache' = IF ok THEN [files_cache EXCEPT ![file_hash[t]] = public_url(file_hash[t])]
                      ELSE files_cache
    /\ up_return' = [up_return EXCEPT ![t] = IF ok THEN public_url(file_hash[t]) ELSE NoUri]
    /\ up_pc' = [up_pc EXCEPT ![t] = "returned"]
    /\ UNCHANGED <<file_hash, _upload_locks, lock_owner, _locks_lock>>

(* GenericAPIAdapter._poll_for_result *)

\* strings are sequences of one-character strings
LowerCase == <<"a", "c", "d", "e", "f", "g", "i", "l", "n", "o", "p", "r", "s", "u">>
UpperCase == <<"A", "C", "D", "E", "F", "G", "I", "L", "N", "O", "P", "R", "S", "U">>

\* str.upper on one character
UpperChar(c) ==
    IF \E k \in 1..Len(LowerCase) : LowerCase[k] = c
    THEN UpperCase[CHOOSE k \in 1..Len(LowerCase) : LowerCase[k] = c]
    ELSE c

upper(str) == [k \in 1..Len(str) |-> UpperChar(str[k])]

\* str.strip
RECURSIVE lstrip(_)
lstrip(str) == IF str # <<>> /\ Head(str) = " " THEN lstrip(Tail(str)) ELSE str

RECURSIVE rstrip(_)
rstrip(str) ==
    IF str # <<>> /\ str[Len(str)] = " " THEN rstrip(SubSeq(str, 1, Len(str) - 1)) ELSE str

strip(str) == lstrip(rstrip(str))

\* the JSON null / Python None at status_path
NoneValue == <<"None">>

\* str(status).strip().upper() if status is not None else ""
Mut_normalized(status) == IF status = NoneValue THEN <<>> ELSE strip(status)
normalized(status) == IF status = NoneValue THEN <<>> ELSE upper(strip(status))

FAILURE_STATUSES ==
    {<<"F", "A", "I", "L", "U", "R", "E">>, <<"F", "A", "I", "L", "E", "D">>,
     <<"E", "R", "R", "O", "R">>}

\* status strings a provider may report
ReportedStatuses ==
    {<<"S", "U", "C", "C", "E", "S", "S">>, <<"s", "u", "c", "c", "e", "s", "s">>,
     <<" ", "d", "o", "n", "e", " ">>, <<"F", "A", "I", "L", "E", "D">>,
     <<"f", "a", "i", "l", "u", "r", "e">>, <<"E", "r", "r", "o", "r">>,
     <<"P", "E", "N", "D", "I", "N", "G">>, <<"r", "u", "n", "n", "i", "n", "g">>,
     <<"C", "A", "N", "C", "E", "L", "L", "E", "D">>, NoneValue}

\* configured success_value (default "SUCCESS")
SuccessValues == {<<"S", "U", "C", "C", "E", "S", "S">>, <<"d", "o", "n", "e">>}

\* failure statuses a mode_config may list: none, or one the code does not know
FailureValueLists == {{}, {<<"c", "a", "n", "c", "e", "l", "l", "e", "d">>}}

\* what _extract_images_from_path finds in a poll answer (None: <<>>)
NoImagesData == [urls |-> <<>>, bytes |-> <<>>]
ImagesData ==
    {NoImagesData} \cup {[urls |-> u, bytes |-> <<>>] : u \in Urls}
    \cup {[urls |-> <<>>, bytes |-> b] : b \in Bytes}

poll_timeout == 600
get_timeout == 30

\* time.sleep(2)
Mut_after_sleep(elapsed) == elapsed
after_sleep(elapsed) == elapsed + 2

\* seconds a requests.get may take before it answers or raises
GetDurations == {0, get_timeout}

PollInit ==
    /\ success_value \in SuccessValues
    /\ failure_values \in FailureValueLists
    /\ poll_pc = "while"
    /\ poll_elapsed = 0
    /\ poll_status = NoneValue
    /\ poll_result = NoResponse

PollIdle ==
    /\ success_value = <<>>
    /\ failure_values = {}
    /\ poll_pc = "off"
    /\ poll_elapsed = 0
    /\ poll_status = NoneValue
    /\ poll_result = NoResponse

\* line 918 and lines 966-969: the loop test, and the timeout return
PollLoopTest ==
    /\ poll_pc = "while"
    /\ IF poll_elapsed < poll_timeout
       THEN poll_pc' = "sleep" /\ UNCHANGED poll_result
       ELSE /\ poll_pc' = "returned"
            /\ poll_result' = Failure(Err("Polling timeout", 0))
    /\ UNCHANGED <<success_value, failure_values, poll_elapsed, poll_status>>

\* line 919
PollSleep ==
    /\ poll_pc = "sleep"
    /\ poll_elapsed' = after_sleep(poll_elapsed)
    /\ poll_pc' = "get"
    /\ UNCHANGED <<success_value, failure_values, poll_status, poll_result>>

\* lines 921-929 and 963-964: the GET answers with a status other than 200,
\* or something in the try block raises: next iteration
PollNoAnswer(d) ==
    /\ poll_pc = "get"
    /\ poll_elapsed' = poll_elapsed + d
    /\ poll_pc' = "while"
    /\ UNCHANGED <<success_value, failure_values, poll_status, poll_result>>

\* lines 931-961: the GET answers 200 with a status and an image payload
PollAnswer(d, status, images_data) ==
    /\ poll_pc = "get"
    /\ poll_elapsed' = poll_elapsed + d
    /\ poll_status' = status
    /\ IF normalized(status) = normalized(success_value)
       THEN /\ poll_pc' = "returned"
            /\ poll_result' =
                 IF images_data # NoImagesData
                 THEN APIResponse(TRUE, images_data.bytes, images_data.urls, NoErr, "", "")
                 ELSE Failure(Err("No images in completed task", 0))
       ELSE IF normalized(status) \in FAILURE_STATUSES
       THEN /\ poll_pc' = "returned"
            /\ poll_result' = Failure(Err("Task failed", 0))
       ELSE /\ poll_pc' = "while"
            /\ UNCHANGED poll_result
    /\ UNCHANGED <<success_value, failure_values>>

(* execute lines 844-849 and APIAdapter._download_image *)

retries == 3

\* "if attempt < retries - 1": sleep and try again
Mut_another_attempt(a) == a < retries
another_attempt(a) == a < retries - 1

\* what one requests.get of a URL gives: the body (possibly empty) or an exception
GetOutcomes == {"content", "empty", "exception"}

\* the results that reach the download step
DownloadInputs == (ParseResults \cup PollResults) \ {r \in ParseResults : r.status = "pending"}

DlInit ==
    /\ dl_input \in DownloadInputs
    /\ dl_result = dl_input
    /\ dl_url = 0
    /\ dl_attempt = 0
    /\ dl_log = <<>>
    /\ dl_sleeps = <<>>
    /\ dl_pc = "test"

DlIdle ==
    /\ dl_input = NoResponse
    /\ dl_result = NoResponse
    /\ dl_url = 0
    /\ dl_attempt = 0
    /\ dl_log = <<>>
    /\ dl_sleeps = <<>>
    /\ dl_pc = "off"

\* line 845: the download loop runs for a success with URLs and no images
DlTest ==
    /\ dl_pc = "test"
    /\ IF dl_result.success /\ dl_result.image_urls # <<>> /\ dl_result.images = <<>>
       THEN dl_pc' = "download" /\ dl_url' = 1
       ELSE dl_pc' = "returned" /\ UNCHANGED dl_url
    /\ UNCHANGED <<dl_input, dl_result, dl_attempt, dl_log, dl_sleeps>>

\* the loop moves to the next URL, or ends after the last one
NextUrl ==
    /\ dl_attempt' = 0
    /\ IF dl_url < Len(dl_result.image_urls)
       THEN dl_url' = dl_url + 1 /\ dl_pc' = "download"
       ELSE dl_url' = dl_url /\ dl_pc' = "returned"

\* one attempt of _download_image for the current URL
DlAttempt(o) ==
    /\ dl_pc = "download"
    /\ dl_log' = Append(dl_log, [url |-> dl_url, attempt |-> dl_attempt, outcome |-> o])
    /\ IF o = "exception"
       THEN /\ UNCHANGED dl_result
            /\ IF another_attempt(dl_attempt)
               THEN /\ dl_sleeps' = Append(dl_sleeps, 2 * (dl_attempt + 1))
                    /\ dl_attempt' = dl_attempt + 1
                    /\ UNCHANGED <<dl_url, dl_pc>>
               ELSE /\ UNCHANGED dl_sleeps
                    /\ NextUrl
       ELSE /\ dl_result' =
                 IF o = "content"
                 THEN [dl_result EXCEPT !.images =
                          Append(@, [src |-> "url", n |-> dl_result.image_urls[dl_url]])]
                 ELSE dl_result
            /\ UNCHANGED dl_sleeps
            /\ NextUrl
    /\ UNCHANGED dl_input

(* IndependentGenerator._compute_params_hash *)

\* a dict is the sequence of its (key, value) items in insertion order
ParamKeys == {<<"a">>, <<"b">>, <<"s", "e", "e", "d">>}
ParamValues == {1, 12}
SeedKey == <<"s", "e", "e", "d">>

Keys(d) == {d[k][1] : k \in 1..Len(d)}
Dicts ==
    {d \in UNION {[1..n -> ParamKeys \X ParamValues] : n \in 0..MaxKeys} :
        \A j, k \in 1..Len(d) : j # k => d[j][1] # d[k][1]}

\* extra_params may also be None
NoneDict == << <<<<"None">>, 0>> >>
ExtraParamsValues == Dicts \cup {NoneDict}

\* the key/value pairs of a dict (two dicts are equal when these are equal)
Items(d) == IF d = NoneDict THEN {} ELSE {d[k] : k \in 1..Len(d)}

\* dict(extra_params) if extra_params else {}
dict_or_empty(d) == IF d = NoneDict THEN <<>> ELSE d

\* params_for_hash.pop("seed", None)
Mut_pop_seed(d) == d
pop_seed(d) == SelectSeq(d, LAMBDA item : item[1] # SeedKey)

\* code-point order of the characters that occur in keys
CharOrder == <<"a", "b", "d", "e", "s">>
CharRank(c) == CHOOSE k \in 1..Len(CharOrder) : CharOrder[k] = c

\* str < str
RECURSIVE StrLess(_, _)
StrLess(x, y) ==
    IF y = <<>> THEN FALSE
    ELSE IF x = <<>> THEN TRUE
    ELSE IF Head(x) = Head(y) THEN StrLess(Tail(x), Tail(y))
    ELSE CharRank(Head(x)) < CharRank(Head(y))

\* sort_keys=True: the items sorted by key
RECURSIVE InsertItem(_, _)
InsertItem(sorted, item) ==
    IF sorted = <<>> THEN <<item>>
    ELSE IF StrLess(item[1], Head(sorted)[1]) THEN <<item>> \o sorted
    ELSE <<Head(sorted)>> \o InsertItem(Tail(sorted), item)

RECURSIVE SortItems(_, _)
SortItems(d, acc) ==
    IF d = <<>> THEN acc ELSE SortItems(Tail(d), InsertItem(acc, Head(d)))

Mut_sort_keys(d) == d
sort_keys(d) == SortItems(d, <<>>)

\* str(int) for a natural number
Digits == <<"0", "1", "2", "3", "4", "5", "6", "7", "8", "9">>
RECURSIVE IntStr(_)
IntStr(n) == IF n < 10 THEN <<Digits[n + 1]>> ELSE IntStr(n \div 10) \o <<Digits[(n % 10) + 1]>>

\* json.dumps(d, sort_keys=True, separators=(',', ':'))
RECURSIVE DumpItems(_)
DumpItems(d) ==
    IF d = <<>> THEN <<>>
    ELSE <<"\"">> \o Head(d)[1] \o <<"\"", ":">> \o IntStr(Head(d)[2])
         \o (IF Len(d) > 1 THEN <<",">> ELSE <<>>) \o DumpItems(Tail(d))

json_dumps(d) == <<"{">> \o DumpItems(sort_keys(d)) \o <<"}">>

\* f"{model}|{prompt}|{batch_count}|{seed}|{extra_params_normalized}"; md5 is
\* taken as collision-free, so the hash is identified with the hashed string
_compute_params_hash(r) ==
    r.model \o <<"|">> \o r.prompt \o <<"|">> \o IntStr(r.batch_count) \o <<"|">>
    \o IntStr(r.seed) \o <<"|">> \o json_dumps(pop_seed(dict_or_empty(r.extra_params)))

ModelNames == {<<"m">>, <<"m", "|", "p">>}
Prompts == {<<"p">>, <<"p", "|", "1">>}
BatchCounts == {1, 12}
HashSeeds == {0, 1}

Requests ==
    [model : ModelNames, prompt : Prompts, batch_count : BatchCounts, seed : HashSeeds,
     extra_params : ExtraParamsValues]

\* the values a field can take
FieldValues(f) ==
    CASE f = "model" -> ModelNames
      [] f = "prompt" -> Prompts
      [] f = "batch_count" -> BatchCounts
      [] f = "seed" -> HashSeeds
      [] f = "extra_params" -> ExtraParamsValues

Fields == {"model", "prompt", "batch_count", "seed", "extra_params"}

NoHash == <<"none">>

HashInit ==
    /\ request \in Requests
    /\ other_request = request
    /\ changed = ""
    /\ hash_pc = "new"
    /\ params_hash = <<NoHash, NoHash>>

HashIdle ==
    /\ request = <<>>
    /\ other_request = <<>>
    /\ changed = ""
    /\ hash_pc = "off"
    /\ params_hash = <<NoHash, NoHash>>

\* a second request that differs from the first in one field
ChangeField(f, v) ==
    /\ hash_pc = "new"
    /\ v \in FieldValues(f)
    /\ v # request[f]
    /\ f = "extra_params" => Items(v) # Items(request[f]) \/ (v = NoneDict) # (request[f] = NoneDict)
    /\ other_request' = [request EXCEPT ![f] = v]
    /\ changed' = f
    /\ hash_pc' = "changed"
    /\ UNCHANGED <<request, params_hash>>

\* a second request whose extra_params holds the same items in another order
ReorderKeys(d) ==
    /\ hash_pc = "new"
    /\ request.extra_params # NoneDict
    /\ d \in Dicts
    /\ Items(d) = Items(request.extra_params)
    /\ d # request.extra_params
    /\ other_request' = [request EXCEPT !.extra_params = d]
    /\ changed' = "key order"
    /\ hash_pc' = "changed"
    /\ UNCHANGED <<request, params_hash>>

\* both requests are hashed
ComputeHashes ==
    /\ hash_pc = "changed"
    /\ params_hash' = <<_compute_params_hash(request), _compute_params_hash(other_request)>>
    /\ hash_pc' = "hashed"
    /\ UNCHANGED <<request, other_request, changed>>

----------------------------------------------------------------------------
(* DynamicImageNodeBase._compute_params_hash (nodes.py), which gets the    *)
(* extra parameters as the JSON text of the extra_params widget            *)

\* JSON.stringify(extra_params): the items in insertion order, no spaces;
\* null for None
RECURSIVE StringifyItems(_)
StringifyItems(d) ==
    IF d = <<>> THEN <<>>
    ELSE <<"\"">> \o Head(d)[1] \o <<"\"", ":">> \o IntStr(Head(d)[2])
         \o (IF Len(d) > 1 THEN <<",">> ELSE <<>>) \o StringifyItems(Tail(d))

JSON_stringify(d) ==
    IF d = NoneDict THEN <<"n", "u", "l", "l">>
    ELSE <<"{">> \o StringifyItems(d) \o <<"}">>

\* the characters of s before the first one in stops
RECURSIVE Before(_, _)
Before(s, stops) ==
    IF s = <<>> \/ Head(s) \in stops THEN <<>> ELSE <<Head(s)>> \o Before(Tail(s), stops)

\* s from its first character in stops on
RECURSIVE From(_, _)
From(s, stops) ==
    IF s = <<>> \/ Head(s) \in stops THEN s ELSE From(Tail(s), stops)

\* int(digits)
RECURSIVE StrInt(_, _)
StrInt(digits, acc) ==
    IF digits = <<>> THEN acc
    ELSE StrInt(Tail(digits),
                10 * acc + (CHOOSE n \in 0..9 : Digits[n + 1] = Head(digits)))

\* json.loads of the text after the opening brace of an object
RECURSIVE LoadItems(_)
LoadItems(s) ==
    IF s = <<>> \/ Head(s) = "}" THEN <<>>
    ELSE IF Head(s) = "," THEN LoadItems(Tail(s))
    ELSE LET key == Before(Tail(s), {"\""})
             after_key == Tail(From(Tail(s), {"\""}))
             digits == Before(Tail(after_key), {",", "}"})
         IN << <<key, StrInt(digits, 0)>> >> \o LoadItems(From(after_key, {",", "}"}))

\* json.loads(extra_params_str) if extra_params_str else {}
json_loads(text) ==
    IF text = <<>> THEN <<>>
    ELSE IF text = <<"n", "u", "l", "l">> THEN NoneDict
    ELSE LoadItems(Tail(text))

\* nodes.py lines 388-399: the parsed text without its seed, dumped with
\* sorted keys; the text itself when anything in the try block raises
\* (None has no pop)
extra_params_normalized(extra_params_str) ==
    LET parsed == json_loads(extra_params_str)
    IN IF parsed = NoneDict THEN extra_params_str
       ELSE json_dumps(pop_seed(parsed))

\* nodes.py lines 379-407
DynamicImageNodeBase_compute_params_hash(model, prompt, count, kwargs) ==
    model \o <<"|">> \o prompt \o <<"|">> \o IntStr(count) \o <<"|">>
    \o IntStr(kwargs.seed) \o <<"|">> \o extra_params_normalized(kwargs.extra_params)

\* one generation request, and the kwargs the node gets for it
HashPairInit ==
    /\ request \in Requests
    /\ other_request = [seed |-> request.seed,
                        extra_params |-> JSON_stringify(request.extra_params)]
    /\ changed = ""
    /\ hash_pc = "both"
    /\ params_hash = <<NoHash, NoHash>>

\* generate line 287 and nodes.py line 571: each side computes its hash
ComputeBothHashes ==
    /\ hash_pc = "both"
    /\ params_hash' = <<_compute_params_hash(request),
                        DynamicImageNodeBase_compute_params_hash(
                            request.model, request.prompt, request.batch_count, other_request)>>
    /\ hash_pc' = "compared"
    /\ UNCHANGED <<request, other_request, changed>>

----------------------------------------------------------------------------
(* DynamicImageGenerationNode.generate (nodes.py): the smart cache in front *)
(* of the API call                                                         *)

\* a local name of generate that no statement has assigned yet
Unbound == <<"unbound">>

\* the texts the extra_params widget can hold: the JSON text of a dict, "null"
\* and the empty text
ExtraParamsTexts == {JSON_stringify(d) : d \in ExtraParamsValues} \cup {<<>>}

\* nodes.py line 571: the hash of the parameters of this call
current_params_hash(args) ==
    DynamicImageNodeBase_compute_params_hash(
        args.model, args.prompt, args.batch_count,
        [seed |-> args.seed, extra_params |-> args.extra_params])

\* the hidden inputs and widgets of one call of generate; _cached_hash is
\* empty, the hash of these very parameters, or the hash of other ones
NodeInit ==
    /\ \E force \in BOOLEAN, skip \in BOOLEAN, last \in {<<>>, <<"[previews]">>},
          text \in ExtraParamsTexts, hash_kind \in {"empty", "same", "stale"} :
         LET args == [model |-> <<"m">>, prompt |-> <<"p">>, batch_count |-> 1, seed |-> 0,
                      extra_params |-> text, _force_generate |-> force,
                      _skip_hash_check |-> skip, _last_images |-> last]
         IN  fn_args = [args |-> args,
                        _cached_hash |-> CASE hash_kind = "empty" -> <<>>
                                           [] hash_kind = "same" -> current_params_hash(args)
                                           [] OTHER -> <<"stale">>]
    /\ fn_result = [current_hash |-> Unbound, extra_params |-> "unbound",
                    api_path |-> FALSE, process_batch |-> FALSE,
                    raised |-> "none", ui_cached_hash |-> NoHash]
    /\ fn_pc = "generate"

\* lines 561-563: the cache is trusted without a hash
params_not_loaded ==
    /\ fn_args.args.extra_params = JSON_stringify(<<>>)
    /\ fn_args.args._last_images # <<>>
    /\ fn_args._cached_hash # <<>>

\* line 565: the flags under which no hash is computed
hash_is_computed == ~(params_not_loaded \/ fn_args.args._skip_hash_check)

\* lines 552-577: current_hash is assigned only in the else branch
NodeSmartCache ==
    /\ fn_pc = "generate"
    /\ LET args == fn_args.args
           current_hash == IF hash_is_computed THEN current_params_hash(args) ELSE Unbound
           need_api_call ==
               IF params_not_loaded \/ args._skip_hash_check
               THEN args._force_generate \/ args._last_images = <<>>
               ELSE \/ args._force_generate
                    \/ args._last_images = <<>>
                    \/ (fn_args._cached_hash # <<>> /\ current_hash # fn_args._cached_hash)
       IN  /\ fn_result' = [fn_result EXCEPT !.current_hash = current_hash,
                                             !.api_path = need_api_call]
           /\ fn_pc' = IF need_api_call THEN "api" ELSE "load"
    /\ UNCHANGED fn_args

\* lines 579-608: the persisted images are returned with the cached hash, or
\* cannot be loaded and the call falls through to the API
NodeLoadPersisted(loaded) ==
    /\ fn_pc = "load"
    /\ IF loaded
       THEN /\ fn_result' = [fn_result EXCEPT !.ui_cached_hash = fn_args._cached_hash]
            /\ fn_pc' = "done"
       ELSE /\ fn_result' = [fn_result EXCEPT !.api_path = TRUE]
            /\ fn_pc' = "api"
    /\ UNCHANGED fn_args

\* lines 633-638: extra_params is assigned only when json.loads returns; the
\* empty text makes it raise, the text null gives None (whose update raises
\* inside the try block)
loaded_extra_params(text) ==
    IF text = <<>> THEN "unbound"
    ELSE IF json_loads(text) = NoneDict THEN "None"
    ELSE "dict"

\* lines 613-720: the parameters are built, process_batch runs and the result
\* is returned with current_hash; reading a name that was never assigned
\* raises UnboundLocalError, None.get raises AttributeError
NodeCallApi ==
    /\ fn_pc = "api"
    /\ LET parsed == loaded_extra_params(fn_args.args.extra_params)
       IN  fn_result' =
             CASE parsed = "unbound" ->
                    [fn_result EXCEPT !.extra_params = parsed, !.raised = "UnboundLocalError"]
               [] parsed = "None" ->
                    [fn_result EXCEPT !.extra_params = parsed, !.raised = "AttributeError"]
               [] fn_result.current_hash = Unbound ->
                    [fn_result EXCEPT !.extra_params = parsed, !.process_batch = TRUE,
                                      !.raised = "UnboundLocalError"]
               [] OTHER ->
                    [fn_result EXCEPT !.extra_params = parsed, !.process_batch = TRUE,
                                      !.ui_cached_hash = fn_result.current_hash]
    /\ fn_pc' = "done"
    /\ UNCHANGED fn_args

----------------------------------------------------------------------------
(* Python values handled by the request builders and the template engine *)
\* A value carries its type: None, str, int, float, list, dict.  A str is a
\* sequence of pieces of text, a dict a function from key names to values.

PyNone == [t |-> "none", v |-> 0]
PyStr(s) == [t |-> "str", v |-> s]
PyInt(n) == [t |-> "int", v |-> n]
PyFloat(s) == [t |-> "float", v |-> s]
PyList(l) == [t |-> "list", v |-> l]
PyDict(d) == [t |-> "dict", v |-> d]

\* bool(x)
truthy(x) ==
    CASE x.t = "none" -> FALSE
      [] x.t = "int" -> x.v # 0
      [] x.t = "float" -> x.v # "0.0"
      [] x.t = "dict" -> DOMAIN x.v # {}
      [] OTHER -> x.v # <<>>

EmptyDict == <<>>

\* k in d
Has(d, k) == k \in DOMAIN d

\* d[k] = v
Put(d, k, v) == (k :> v) @@ d

\* d.get(k, default)
Get(d, k, default) == IF Has(d, k) THEN d[k] ELSE default

\* the dicts holding any of the given optional entries
OptEntry(k, values) == {EmptyDict} \cup {k :> v : v \in values}

\* s.replace(old, new) on a str whose pieces are the units of replacement
RECURSIVE replace(_, _, _)
replace(s, old, new) ==
    IF s = <<>> THEN <<>>
    ELSE (IF Head(s) = old THEN new ELSE <<Head(s)>>) \o replace(Tail(s), old, new)

\* base64.b64encode(file_bytes).decode('utf-8')
b64encode(file_bytes) == <<"b64(", file_bytes, ")">>

\* an uploaded image: (field_name, (filename, bytes, mime)) or
\* (field_name, (filename, bytes, mime, cached_b64))
UploadFile(name, n, cached) ==
    [field_name |-> "image", filename |-> name, file_bytes |-> name,
     mime_type |-> "image/png", len |-> n, cached_b64 |-> cached]

File3(name) == UploadFile(name, 3, PyNone)
File4(name) == UploadFile(name, 4, PyStr(<<"cached(", name, ")">>))
File4None(name) == UploadFile(name, 4, PyNone)

UploadLists ==
    {<<>>, <<File3("f1")>>, <<File4("f1"), File3("f2")>>, <<File3("f1"), File4None("f2")>>}

\* the fourth element of the file tuple, None for a 3-tuple
cached_b64(file) == IF file.len >= 4 THEN file.cached_b64 ELSE PyNone

----------------------------------------------------------------------------
(* GenericAPIAdapter.build_request, Gemini dialect *)

AspectRatios == {PyStr(<<>>), PyStr(<<"auto">>), PyStr(<<"16:9">>), PyStr(<<"AUTO">>)}
ImageSizes == {PyStr(<<>>), PyStr(<<"2K">>)}
SeedValues == {PyInt(0), PyInt(7)}
PromptPrefixes == {<<>>, <<"prefix: ">>}
ApiKeys == {<<>>, <<"key">>}

\* params of a Gemini call
GeminiParams ==
    {Put(a @@ s @@ sd, "prompt", PyStr(<<"P">>)) :
        a \in OptEntry("aspect_ratio", AspectRatios),
        s \in OptEntry("image_size", ImageSizes),
        sd \in OptEntry("seed", SeedValues)}

\* mode_config["generation_config"] as configured
GenerationConfigs ==
    { EmptyDict,
      "temperature" :> PyFloat("1.0"),
      "imageConfig" :> PyDict("aspectRatio" :> PyStr(<<"1:1">>)),
      ("seed" :> PyInt(3)) @@ ("responseModalities" :> PyList(<<PyStr(<<"IMAGE">>)>>)) }

\* endpoint["extra_params"] as configured
GeminiExtraParams ==
    { EmptyDict, "responseModalities" :> PyList(<<PyStr(<<"TEXT">>), PyStr(<<"IMAGE">>)>>) }

\* (auth_type, auth_header_format, Account.get_instance() succeeds)
AuthModes ==
    { <<"api", "bearer", TRUE>>, <<"api", "none", TRUE>>,
      <<"account", "bearer", TRUE>>, <<"account", "bearer", FALSE>> }

\* (mode_config.use_oss_cache, endpoint.use_oss_cache)
CacheFlags == { <<FALSE, FALSE>>, <<TRUE, FALSE>>, <<FALSE, TRUE>> }

\* what gemini_files_cache.get_or_upload does for one image
UploadOutcomes == {"uri", "none", "raises"}

GeminiEndpointPath == <<"/v1beta/models/", "{{model}}", ":generateContent?key=", "{api_key}">>

\* build_request lines 59-65: the prompt prefix is put on a copy of params
prefixed(endpoint, params) ==
    IF endpoint.prompt_prefix # <<>> /\ Has(params, "prompt")
    THEN Put(params, "prompt", PyStr(endpoint.prompt_prefix \o params["prompt"].v))
    ELSE params

bearer_headers(api_key) == "Authorization" :> (<<"Bearer ">> \o api_key)

\* lines 266-308
gemini_headers(a, params) ==
    IF a.endpoint.auth_type = "account"
    THEN IF a.account_ok
         THEN ("X-Auth-T" :> <<"token">>)
              @@ ("X-Model-ID" :> <<a.endpoint.model_name>>)
              @@ ("X-Image-Size" :> Get(params, "image_size", PyStr(<<"1K">>)).v)
              @@ ("Content-Type" :> <<"application/json">>)
         ELSE Put(bearer_headers(a.api_key), "Content-Type", <<"application/json">>)
    ELSE IF a.endpoint.auth_header_format = "none"
         THEN "Content-Type" :> <<"application/json">>
         ELSE Put(bearer_headers(a.api_key), "Content-Type", <<"application/json">>)

\* lines 324-339
files_api_available(a, params) ==
    /\ a.mode_config.use_oss_cache \/ a.endpoint.use_oss_cache
    /\ Get(params, "_upload_files", PyList(<<>>)).v # <<>>
    /\ a.endpoint.auth_type # "account"
    /\ a.api_key # <<>>

\* lines 341-380, one pass of the loop over upload_files
Mut_image_part(file, available, outcome) ==
    IF available /\ outcome # "none"
    THEN [file_data |-> [mime_type |-> file.mime_type, file_uri |-> <<"uri(", file.file_bytes, ")">>]]
    ELSE [inline_data |->
            [mime_type |-> file.mime_type,
             data |-> IF truthy(cached_b64(file)) THEN cached_b64(file).v
                      ELSE b64encode(file.file_bytes)]]
image_part(file, available, outcome) ==
    IF available /\ outcome = "uri"
    THEN [file_data |-> [mime_type |-> file.mime_type, file_uri |-> <<"uri(", file.file_bytes, ")">>]]
    ELSE [inline_data |->
            [mime_type |-> file.mime_type,
             data |-> IF truthy(cached_b64(file)) THEN cached_b64(file).v
                      ELSE b64encode(file.file_bytes)]]

RECURSIVE image_parts(_, _, _, _)
image_parts(files, available, uploaded, i) ==
    IF i > Len(files) THEN <<>>
    ELSE <<image_part(files[i], available, uploaded[i])>>
         \o image_parts(files, available, uploaded, i + 1)

\* lines 403-409; the mutation lets "auto" through
Mut_aspect_ratio_accepted(ar) == truthy(ar)
aspect_ratio_accepted(ar) == truthy(ar) /\ ar # PyStr(<<"auto">>)

\* lines 397-409
image_config(params) ==
    (IF Has(params, "image_size") /\ truthy(params["image_size"])
     THEN "imageSize" :> params["image_size"] ELSE EmptyDict)
    @@ (IF Has(params, "aspect_ratio") /\ aspect_ratio_accepted(params["aspect_ratio"])
        THEN "aspectRatio" :> params["aspect_ratio"] ELSE EmptyDict)

\* d.setdefault-like step "if k not in d: d[k] = v"
PutIfAbsent(d, k, v) == IF Has(d, k) THEN d ELSE Put(d, k, v)

\* lines 385-420
generation_config(a, params) ==
    LET g0 == a.mode_config.generation_config
        endpoint_extra == a.endpoint.extra_params
        g1 == IF Has(endpoint_extra, "responseModalities")
              THEN PutIfAbsent(g0, "responseModalities", endpoint_extra["responseModalities"])
              ELSE g0
        g2 == IF Has(params, "seed") /\ truthy(params["seed"])
              THEN PutIfAbsent(g1, "seed", params["seed"])
              ELSE g1
        g3 == IF image_config(params) # EmptyDict
              THEN Put(g2, "imageConfig", PyDict(image_config(params)))
              ELSE g2
        g4 == PutIfAbsent(g3, "maxOutputTokens", PyInt(32768))
        g5 == PutIfAbsent(g4, "temperature", PyFloat("0.8"))
    IN PutIfAbsent(g5, "candidateCount", PyInt(1))

\* lines 241-442
_build_gemini_request(a, params) ==
    LET files == Get(params, "_upload_files", PyList(<<>>)).v
        parts == <<[text |-> Get(params, "prompt", PyStr(<<>>)).v]>>
                 \o image_parts(files, files_api_available(a, params), a.get_or_upload, 1)
        path == replace(replace(GeminiEndpointPath, "{{model}}", <<a.endpoint.model_name>>),
                        "{api_key}", a.api_key)
    IN ("url" :> (<<"base_url">> \o path))
       @@ ("method" :> "POST")
       @@ ("headers" :> gemini_headers(a, params))
       @@ ("json" :> [contents |-> <<[parts |-> parts]>>,
                      generationConfig |-> generation_config(a, params)])

----------------------------------------------------------------------------
(* GenericAPIAdapter._extract_images_from_path and _add_image_to_result *)
\* A path is the sequence of its characters; a field name counts as one
\* character, since the scan treats every character that is not '.', '['
\* or ']' alike.

\* lines 631-649: the path is split into parts
RECURSIVE split_path(_, _, _)
split_path(path, current, parts) ==
    LET flushed == IF current # <<>> THEN Append(parts, current) ELSE parts
    IN IF path = <<>> THEN flushed
       ELSE CASE Head(path) = "." -> split_path(Tail(path), <<>>, flushed)
              [] Head(path) = "[" -> split_path(Tail(path), <<"[">>, flushed)
              [] Head(path) = "]" ->
                    split_path(Tail(path), <<>>, Append(parts, Append(current, "]")))
              [] OTHER -> split_path(Tail(path), Append(current, Head(path)), parts)

\* '.'.join(parts)
RECURSIVE join_parts(_)
join_parts(parts) ==
    IF parts = <<>> THEN <<>>
    ELSE IF Len(parts) = 1 THEN parts[1]
    ELSE parts[1] \o <<".">> \o join_parts(Tail(parts))

\* int(index_str): the indices the explored paths use; anything else raises
\* ValueError
IndexValues == ("0" :> 0) @@ ("1" :> 1) @@ ("2" :> 2) @@ ("-1" :> -1)

\* lines 677-682: current_data[index]
item_at(current_data, index_str) ==
    IF Len(index_str) = 1 /\ index_str[1] \in DOMAIN IndexValues /\ current_data.t = "list"
    THEN LET index == IndexValues[index_str[1]]
             n == Len(current_data.v)
         IN IF index >= 0 /\ index < n THEN current_data.v[index + 1]
            ELSE IF index < 0 /\ index >= -n THEN current_data.v[n + index + 1]
            ELSE PyNone
    ELSE PyNone

\* pieces of text longer than 100 characters (base64 payloads); every other
\* piece is a few characters long
LongB64 == "iVBORw0KGgo...(valid base64, 2000 characters)"
LongText == "Lorem ipsum...(not base64, 2000 characters)"
LongPieces == {LongB64, LongText}

\* len(value) > 100
is_long(s) == \E i \in 1..Len(s) : s[i] \in LongPieces

\* base64.b64decode(value): the bytes, or PyNone where it raises
b64decode(value) ==
    IF value.t = "str" /\ \A i \in 1..Len(value.v) : value.v[i] # LongText
    THEN [t |-> "bytes", v |-> <<"decoded(">> \o value.v \o <<")">>]
    ELSE PyNone

\* value.startswith(('http://', 'https://'))
is_http(s) == s # <<>> /\ Head(s) \in {"http://", "https://"}

FirstAt(s, piece, from) ==
    IF \E i \in from..Len(s) : s[i] = piece
    THEN CHOOSE i \in from..Len(s) : s[i] = piece /\ \A j \in from..(i - 1) : s[j] # piece
    ELSE 0

\* re.findall(md_pattern, value): the targets of the Markdown images
\* ![alt](target) in value, in order ("![", "](" and ")" are pieces)
RECURSIVE md_matches(_)
md_matches(s) ==
    IF s = <<>> THEN <<>>
    ELSE IF Head(s) = "!["
    THEN LET j == FirstAt(s, "](", 2)
             k == IF j = 0 THEN 0 ELSE FirstAt(s, ")", j + 1)
         IN IF k > j + 1 /\ j > 0
            THEN <<SubSeq(s, j + 1, k - 1)>> \o md_matches(SubSeq(s, k + 1, Len(s)))
            ELSE md_matches(Tail(s))
    ELSE md_matches(Tail(s))

RECURSIVE http_only(_)
http_only(urls) ==
    IF urls = <<>> THEN <<>>
    ELSE (IF is_http(Head(urls)) THEN <<PyStr(Head(urls))>> ELSE <<>>) \o http_only(Tail(urls))

EmptyResult == [urls |-> <<>>, bytes |-> <<>>]

add_bytes(result, decoded) ==
    IF decoded = PyNone THEN result
    ELSE [result EXCEPT !.bytes = Append(@, decoded)]

\* the mutation accepts every string as a URL
Mut_is_url(s) == TRUE
is_url(s) == is_http(s)

\* lines 693-725
_add_image_to_result(value, result) ==
    CASE value.t = "str" ->
            IF md_matches(value.v) # <<>>
            THEN [result EXCEPT !.urls = @ \o http_only(md_matches(value.v))]
            ELSE IF is_url(value.v) THEN [result EXCEPT !.urls = Append(@, value)]
            ELSE IF is_long(value.v) THEN add_bytes(result, b64decode(value))
            ELSE result
      [] value.t = "dict" ->
            IF Has(value.v, "url") THEN [result EXCEPT !.urls = Append(@, value.v["url"])]
            ELSE IF Has(value.v, "b64_json") THEN add_bytes(result, b64decode(value.v["b64_json"]))
            ELSE result
      [] OTHER -> result

\* "return result if result["urls"] or result["bytes"] else None"
result_or_none(result) ==
    IF result.urls # <<>> \/ result.bytes # <<>> THEN PyDict(result) ELSE PyNone

\* lines 619-691; walk is the loop over parts from part i on, each_item the
\* loop over the items of a list under a wildcard
RECURSIVE _extract_images_from_path(_, _)
RECURSIVE walk(_, _, _)
RECURSIVE each_item(_, _, _)

each_item(list_items, remaining_path, result) ==
    IF list_items = <<>> THEN result
    ELSE LET item == Head(list_items)
             extracted == _extract_images_from_path(item, remaining_path)
             added == IF remaining_path # <<>>
                      THEN IF extracted # PyNone
                           THEN [urls |-> result.urls \o extracted.v.urls,
                                 bytes |-> result.bytes \o extracted.v.bytes]
                           ELSE result
                      ELSE _add_image_to_result(item, result)
         IN each_item(Tail(list_items), remaining_path, added)

walk(current_data, parts, i) ==
    IF i > Len(parts) \/ current_data = PyNone
    THEN result_or_none(IF truthy(current_data)
                        THEN _add_image_to_result(current_data, EmptyResult)
                        ELSE EmptyResult)
    ELSE LET part == parts[i]
         IN IF Head(part) = "["
            THEN LET index_str == SubSeq(part, 2, Len(part) - 1)
                 IN IF index_str = <<"*">>
                    THEN IF current_data.t = "list"
                         THEN result_or_none(
                                each_item(current_data.v,
                                          join_parts(SubSeq(parts, i + 1, Len(parts))),
                                          EmptyResult))
                         ELSE walk(current_data, parts, i + 1)
                    ELSE walk(item_at(current_data, index_str), parts, i + 1)
            ELSE walk(IF current_data.t = "dict" /\ Len(part) = 1
                      THEN Get(current_data.v, part[1], PyNone) ELSE PyNone,
                      parts, i + 1)

_extract_images_from_path(data, path) == walk(data, split_path(path, <<>>, <<>>), 1)

\* values found under "url" in a response
HttpsUrl == PyStr(<<"https://", "h/1.png">>)
HttpUrl == PyStr(<<"http://", "h/2.png">>)
ShortString == PyStr(<<"u1">>)
Base64String == PyStr(<<LongB64>>)
LongTextString == PyStr(<<LongText>>)
MarkdownImage == PyStr(<<"text ", "![", "alt", "](", "https://", "h/3.png", ")">>)
UrlObject == PyDict("url" :> ShortString)
UrlList == PyList(<<HttpsUrl, HttpUrl>>)

UrlValues ==
    {HttpsUrl, HttpUrl, ShortString, Base64String, LongTextString, MarkdownImage,
     UrlObject, UrlList, PyNone}

\* the items of the list in the response
ResponseItems ==
    {PyDict("url" :> v) : v \in UrlValues} \cup {PyDict("b64_json" :> Base64String), HttpsUrl}

RECURSIVE ListsOf(_, _)
ListsOf(S, n) ==
    IF n = 0 THEN {<<>>}
    ELSE ListsOf(S, n - 1) \cup {Append(l, x) : l \in ListsOf(S, n - 1), x \in S}

\* responses: a list under "data", or a single object there
Responses ==
    {PyDict("data" :> PyList(l)) : l \in ListsOf(ResponseItems, MaxUrls)}
    \cup {PyDict("data" :> PyDict("url" :> HttpsUrl))}

WildcardUrlPath == <<"data", "[", "*", "]", ".", "url">>

ResponsePaths ==
    { WildcardUrlPath,
      <<"data", "[", "*", "]">>,
      <<"data", "[", "*", "]", ".", "url", "[", "*", "]">>,
      <<"data", "[", "0", "]", ".", "url">>,
      <<"data", "[", "-1", "]", ".", "url">>,
      <<"data", "[", "x", "]", ".", "url">>,
      <<"data", ".", "url">> }

ExtractInit ==
    /\ \E data \in Responses, path \in ResponsePaths :
         fn_args = [data |-> data, path |-> path]
    /\ fn_result = <<>>
    /\ fn_pc = "called"

\* parse_response line 511 / _poll_for_result line 940
ExtractImages ==
    /\ fn_pc = "called"
    /\ fn_result' = _extract_images_from_path(fn_args.data, fn_args.path)
    /\ fn_pc' = "returned"
    /\ UNCHANGED fn_args

----------------------------------------------------------------------------
(* TemplateEngine (adapters/template_engine.py) *)
\* A template string is a sequence of pieces: a piece is either a reference
\* {{name}}, which VARIABLE_PATTERN matches, or text that holds none.

\* the pieces VARIABLE_PATTERN matches, with match.group(1)
VarOf ==
    ("{{x}}" :> "x") @@ ("{{y}}" :> "y") @@ ("{{missing}}" :> "missing")
    @@ ("{{_map_size}}" :> "_map_size") @@ ("{{_chat_content}}" :> "_chat_content")

RefTokens == DOMAIN VarOf

\* var_name.startswith('_')
is_internal(name) ==
    name \in {"_chat_content", "_map_size", "_upload_files", "_images_base64", "_note"}

\* mapping_name[len(prefix):] for the prefixes '_map_' and '_extract_'
DirectName == ("_map_size" :> "size")

\* the keys of a dict, one after the other
RECURSIVE KeySeq(_)
KeySeq(keys) ==
    IF keys = {} THEN <<>>
    ELSE LET k == CHOOSE k \in keys : TRUE IN <<k>> \o KeySeq(keys \ {k})

\* repr(value) and str(value)
RECURSIVE py_repr(_)
RECURSIVE repr_items(_, _)
RECURSIVE repr_entries(_, _)

repr_items(l, i) ==
    IF i > Len(l) THEN <<>>
    ELSE (IF i > 1 THEN <<", ">> ELSE <<>>) \o py_repr(l[i]) \o repr_items(l, i + 1)

repr_entries(d, keys) ==
    IF keys = <<>> THEN <<>>
    ELSE <<"'", Head(keys), "': ">> \o py_repr(d[Head(keys)])
         \o (IF Len(keys) > 1 THEN <<", ">> ELSE <<>>) \o repr_entries(d, Tail(keys))

py_repr(value) ==
    CASE value.t = "none" -> <<"None">>
      [] value.t = "str" -> <<"'">> \o value.v \o <<"'">>
      [] value.t = "int" -> IntStr(value.v)
      [] value.t = "float" -> <<value.v>>
      [] value.t = "list" -> <<"[">> \o repr_items(value.v, 1) \o <<"]">>
      [] value.t = "dict" -> <<"{">> \o repr_entries(value.v, KeySeq(DOMAIN value.v)) \o <<"}">>

py_str(value) == IF value.t = "str" THEN value.v ELSE py_repr(value)

\* generic.py lines 445-471: the data URL of every uploaded file
data_url(file) ==
    PyStr(<<"data:", file.mime_type, ";base64,">>
          \o (IF file.len >= 4 THEN py_str(file.cached_b64) ELSE b64encode(file.file_bytes)))

_prepare_images_base64(params) ==
    LET upload_files == Get(params, "_upload_files", PyList(<<>>)).v
    IN Put(params, "_images_base64",
           PyList([i \in 1..Len(upload_files) |-> data_url(upload_files[i])]))

text_block(prompt) == PyDict(("type" :> PyStr(<<"text">>)) @@ ("text" :> prompt))

image_url_block(img_data) ==
    PyDict(("type" :> PyStr(<<"image_url">>)) @@ ("image_url" :> PyDict("url" :> img_data)))

\* the mutation puts the images before the text
Mut_chat_blocks(text, images) == images \o text
chat_blocks(text, images) == text \o images

\* lines 99-125
_build_chat_content(params) ==
    LET prompt == Get(params, "prompt", PyStr(<<>>))
        images_base64 == Get(params, "_images_base64", PyList(<<>>)).v
    IN chat_blocks(IF truthy(prompt) THEN <<text_block(prompt)>> ELSE <<>>,
                   [i \in 1..Len(images_base64) |-> image_url_block(images_base64[i])])

\* lines 127-163
_get_mapped_value(mapping_name, params, value_mappings) ==
    IF ~Has(value_mappings, mapping_name) THEN PyNone
    ELSE LET mapping == value_mappings[mapping_name]
             direct == IF mapping_name \in DOMAIN DirectName
                          /\ Has(params, DirectName[mapping_name])
                       THEN params[DirectName[mapping_name]] ELSE PyNone
             found == {k \in DOMAIN params : params[k].t = "str" /\ params[k] \in DOMAIN mapping}
             source_param == IF direct # PyNone THEN direct
                             ELSE IF found # {} THEN params[CHOOSE k \in found : TRUE]
                             ELSE PyNone
         IN IF source_param = PyNone THEN PyNone
            ELSE IF source_param \in DOMAIN mapping THEN mapping[source_param]
            ELSE source_param

\* lines 81-97
_get_value(var_name, params, value_mappings) ==
    IF var_name = "_chat_content" THEN PyList(_build_chat_content(params))
    ELSE IF is_internal(var_name) THEN _get_mapped_value(var_name, params, value_mappings)
    ELSE Get(params, var_name, PyNone)

\* lines 60-65: VARIABLE_PATTERN.sub(replace_var, template)
RECURSIVE substitute(_, _, _)
substitute(s, params, value_mappings) ==
    IF s = <<>> THEN <<>>
    ELSE (IF Head(s) \in RefTokens
          THEN LET value == _get_value(VarOf[Head(s)], params, value_mappings)
               IN IF value # PyNone THEN py_str(value) ELSE <<>>
          ELSE <<Head(s)>>)
         \o substitute(Tail(s), params, value_mappings)

\* lines 51-65
_render_string(s, params, value_mappings) ==
    IF Len(s) = 1 /\ s[1] \in RefTokens
    THEN _get_value(VarOf[s[1]], params, value_mappings)
    ELSE PyStr(substitute(s, params, value_mappings))

\* lines 31-79
RECURSIVE render(_, _, _)

\* the mutation drops every key whose rendered value is falsy
Mut_kept_keys(d, params, value_mappings) ==
    {k \in DOMAIN d : truthy(render(d[k], params, value_mappings))}
kept_keys(d, params, value_mappings) ==
    {k \in DOMAIN d : render(d[k], params, value_mappings) # PyNone}

_render_dict(d, params, value_mappings) ==
    [k \in kept_keys(d, params, value_mappings) |-> render(d[k], params, value_mappings)]

_render_list(l, params, value_mappings) ==
    [i \in 1..Len(l) |-> render(l[i], params, value_mappings)]

render(template, params, value_mappings) ==
    CASE template.t = "str" -> _render_string(template.v, params, value_mappings)
      [] template.t = "dict" -> PyDict(_render_dict(template.v, params, value_mappings))
      [] template.t = "list" -> PyList(_render_list(template.v, params, value_mappings))
      [] OTHER -> template

\* generic.py line 145: "_chat_content" in str(payload_template)
RECURSIVE mentions_chat_content(_)
mentions_chat_content(template) ==
    CASE template.t = "str" -> \E i \in 1..Len(template.v) : template.v[i] = "{{_chat_content}}"
      [] template.t = "dict" -> \E k \in DOMAIN template.v : mentions_chat_content(template.v[k])
      [] template.t = "list" -> \E i \in 1..Len(template.v) : mentions_chat_content(template.v[i])
      [] OTHER -> FALSE

\* the template strings explored: one or two pieces
TemplatePieces == RefTokens \cup {"a "}
TemplateStrings == {<<a>> : a \in TemplatePieces} \cup {<<a, b>> : a, b \in TemplatePieces}

\* the templates explored: a string, an object, a list, a chat message
\* list, a number, null
Templates ==
    {PyStr(s) : s \in TemplateStrings}
    \cup {PyDict(("f" :> PyStr(s)) @@ ("g" :> PyInt(1))) : s \in TemplateStrings}
    \cup {PyList(<<PyStr(s), PyNone>>) : s \in TemplateStrings}
    \cup {PyDict("messages" :> PyList(<<PyDict(("role" :> PyStr(<<"user">>))
                                               @@ ("content" :> PyStr(s)))>>)) :
            s \in TemplateStrings}
    \cup {PyInt(7), PyNone}

ChatTemplate == PyStr(<<"{{_chat_content}}">>)

\* the values of params["x"]
XValues ==
    { PyStr(<<"v">>), PyStr(<<"{{y}}">>), PyInt(5), PyNone,
      PyDict("k" :> PyNone), PyDict("k" :> PyStr(<<"v">>)), PyDict("k" :> PyInt(0)),
      PyList(<<PyNone>>) }

TemplateParams ==
    {x @@ y @@ p @@ s :
        x \in OptEntry("x", XValues),
        y \in OptEntry("y", {PyStr(<<"w">>)}),
        p \in OptEntry("prompt", {PyStr(<<"P">>), PyStr(<<>>)}),
        s \in OptEntry("size", {PyStr(<<"2K">>)})}

ValueMappings == "_map_size" :> (PyStr(<<"2K">>) :> PyStr(<<"1792x1024">>))

TemplateInit ==
    /\ \E template \in Templates, p \in TemplateParams, files \in UploadLists :
         fn_args = [template |-> template, value_mappings |-> ValueMappings,
                    params |-> IF files = <<>> THEN p
                               ELSE Put(p, "_upload_files", PyList(files))]
    /\ fn_result = <<>>
    /\ fn_pc = "called"

\* generic.py lines 145-146
PrepareImages ==
    /\ fn_pc = "called"
    /\ mentions_chat_content(fn_args.template)
    /\ fn_args' = [fn_args EXCEPT !.params = _prepare_images_base64(@)]
    /\ fn_pc' = "prepared"
    /\ UNCHANGED fn_result

\* generic.py line 149: payload = self.template_engine.render(payload_template, params)
Render ==
    /\ \/ fn_pc = "prepared"
       \/ fn_pc = "called" /\ ~mentions_chat_content(fn_args.template)
    /\ fn_result' = <<render(fn_args.template, fn_args.params, fn_args.value_mappings)>>
    /\ fn_pc' = "returned"
    /\ UNCHANGED fn_args

\* the rendered value is rendered once more with the same params
RenderAgain ==
    /\ fn_pc = "returned"
    /\ fn_result' = Append(fn_result, render(fn_result[1], fn_args.params, fn_args.value_mappings))
    /\ fn_pc' = "again"
    /\ UNCHANGED fn_args

----------------------------------------------------------------------------
(* GenericAPIAdapter.build_request, OpenAI dialect *)

ContentTypes == {"application/json", "multipart/form-data", "application/x-www-form-urlencoded"}

\* mode_config["payload_template"] as configured
PayloadTemplates ==
    { PyDict(EmptyDict),
      PyDict(("prompt" :> PyStr(<<"{{prompt}}">>)) @@ ("size" :> PyStr(<<"{{_map_size}}">>))
             @@ ("_note" :> PyStr(<<"a ">>))),
      PyDict(("model" :> PyStr(<<"configured-model">>))
             @@ ("messages" :> PyList(<<PyDict(("role" :> PyStr(<<"user">>))
                                               @@ ("content" :> ChatTemplate))>>))) }

OpenAIParams ==
    {p @@ s @@ m :
        p \in OptEntry("prompt", {PyStr(<<"P">>), PyStr(<<>>)}),
        s \in OptEntry("size", {PyStr(<<"2K">>)}),
        m \in OptEntry("model", {PyStr(<<"requested-model">>)})}

OpenAIExtraParams ==
    { EmptyDict,
      ("response_format" :> PyStr(<<"url">>)) @@ ("model" :> PyStr(<<"extra-model">>)) }

\* oss_cache: the import fails, the cache is disabled, or it is enabled
OssStates == {"import_error", "disabled", "enabled"}

\* what oss_cache.get_or_upload does for one image
OssOutcomes == {"url", "none", "raises"}

FileFormats == {"same_name", "indexed", "array", "numbered", "other"}

ModelNames2 == {"", "endpoint-model"}

\* lines 82-92
openai_headers(a) ==
    IF a.endpoint.auth_type = "account" /\ a.account_ok
    THEN "X-Auth-T" :> <<"token">>
    ELSE bearer_headers(a.api_key)

\* lines 109-121: the loop stops at the first image that is not uploaded
RECURSIVE oss_upload(_, _, _)
oss_upload(files, uploaded, i) ==
    IF i > Len(files) THEN [image_urls |-> <<>>, all_uploaded |-> TRUE, raised |-> FALSE]
    ELSE CASE uploaded[i] = "raises" ->
                [image_urls |-> <<>>, all_uploaded |-> FALSE, raised |-> TRUE]
           [] uploaded[i] = "none" ->
                [image_urls |-> <<>>, all_uploaded |-> FALSE, raised |-> FALSE]
           [] OTHER ->
                LET rest == oss_upload(files, uploaded, i + 1)
                IN [rest EXCEPT !.image_urls =
                        <<PyStr(<<"https://", "oss/", files[i].filename>>)>> \o @]

\* lines 97-140: the image URLs when the request is switched to JSON with
\* URLs, <<>> when it is not
oss_image_urls(a, params) ==
    LET upload_files == Get(params, "_upload_files", PyList(<<>>)).v
        up == oss_upload(upload_files, a.get_or_upload, 1)
    IN IF /\ a.endpoint.use_oss_cache
          /\ a.mode_config.content_type = "multipart/form-data"
          /\ upload_files # <<>>
          /\ a.oss = "enabled"
          /\ up.all_uploaded
       THEN up.image_urls
       ELSE <<>>

oss_switched(a, params) == oss_image_urls(a, params) # <<>>

\* lines 77 and 126
effective_content_type(a, params) ==
    IF oss_switched(a, params) THEN "application/json" ELSE a.mode_config.content_type

\* lines 151-171: model, pass-through parameters, extra_params
passed_through(params, payload) ==
    {k \in DOMAIN params :
        /\ ~is_internal(k)
        /\ k \notin DOMAIN payload
        /\ params[k] # PyNone
        /\ params[k] # PyStr(<<>>)}

\* the mutation lets extra_params replace what the payload already has
Mut_merged_payload(a, params, rendered) ==
    LET p1 == IF a.endpoint.model_name # ""
              THEN PutIfAbsent(rendered, "model", PyStr(<<a.endpoint.model_name>>))
              ELSE rendered
        p2 == p1 @@ [k \in passed_through(params, p1) |-> params[k]]
    IN a.endpoint.extra_params @@ p2
merged_payload(a, params, rendered) ==
    LET p1 == IF a.endpoint.model_name # ""
              THEN PutIfAbsent(rendered, "model", PyStr(<<a.endpoint.model_name>>))
              ELSE rendered
        p2 == p1 @@ [k \in passed_through(params, p1) |-> params[k]]
    IN p2 @@ a.endpoint.extra_params

\* lines 217-231
file_name(file_format, file_field, i) ==
    CASE file_format = "indexed" -> <<file_field, "[">> \o IntStr(i) \o <<"]">>
      [] file_format = "array" -> <<file_field, "[]">>
      [] file_format = "numbered" -> <<file_field>> \o IntStr(i + 1)
      [] OTHER -> <<file_field>>

\* lines 210-233
renamed_files(a, params) ==
    LET upload_files == Get(params, "_upload_files", PyList(<<>>)).v
    IN [i \in 1..Len(upload_files) |->
          [name |-> file_name(a.mode_config.file_format, "image", i - 1),
           filename |-> upload_files[i].filename,
           file_bytes |-> upload_files[i].file_bytes,
           mime_type |-> upload_files[i].mime_type]]

\* the mutation sends the JSON body along with the form data
Mut_request_body(content_type, payload, files) ==
    IF content_type = "multipart/form-data"
    THEN ("json" :> payload) @@ ("data" :> payload) @@ ("files" :> files)
    ELSE "json" :> payload

\* lines 180-237: the body entries of the descriptor
request_body(content_type, payload, files) ==
    CASE content_type = "application/json" -> "json" :> payload
      [] content_type = "multipart/form-data" ->
            ("data" :> [k \in {k \in DOMAIN payload : ~is_internal(k)} |-> payload[k]])
            @@ ("files" :> files)
      [] OTHER -> "data" :> payload

\* lines 181 and 236
content_type_header(content_type) ==
    IF content_type = "multipart/form-data" THEN EmptyDict
    ELSE "Content-Type" :> <<content_type>>

\* lines 73-239
_build_openai_request(a, params) ==
    LET image_urls == oss_image_urls(a, params)
        params1 == IF image_urls # <<>> THEN Put(params, "image_urls", PyList(image_urls))
                   ELSE params
        params2 == IF mentions_chat_content(a.mode_config.payload_template)
                   THEN _prepare_images_base64(params1) ELSE params1
        rendered == render(a.mode_config.payload_template, params2, a.mode_config.value_mappings).v
        payload == merged_payload(a, params2, rendered)
        content_type == effective_content_type(a, params)
    IN ("url" :> <<"base_url", IF image_urls # <<>> THEN "/v1/images/generations"
                               ELSE "/v1/images/edits">>)
       @@ ("method" :> "POST")
       @@ ("headers" :> (content_type_header(content_type) @@ openai_headers(a)))
       @@ request_body(content_type, payload, renamed_files(a, params2))

\* lines 51-71
build_request(a) ==
    IF a.endpoint.api_format = "gemini"
    THEN _build_gemini_request(a, prefixed(a.endpoint, a.params))
    ELSE _build_openai_request(a, prefixed(a.endpoint, a.params))

\* the calls of build_request on an OpenAI endpoint, for the given auth
\* types and file formats
OpenAICalls(accounts, file_formats) ==
    /\ \E p \in OpenAIParams, files \in {<<>>, <<File4("f1"), File3("f2")>>},
          template \in PayloadTemplates, content_type \in ContentTypes,
          x \in OpenAIExtraParams, oss \in OssStates, use_oss \in BOOLEAN,
          account \in accounts, file_format \in file_formats, model_name \in ModelNames2,
          prefix \in PromptPrefixes :
         \E uploaded \in [1..Len(files) -> OssOutcomes] :
            fn_args =
              [ endpoint |-> [api_format |-> "openai", prompt_prefix |-> prefix,
                              auth_type |-> IF account THEN "account" ELSE "api",
                              auth_header_format |-> "bearer",
                              use_oss_cache |-> use_oss, extra_params |-> x,
                              model_name |-> model_name],
                mode_config |-> [content_type |-> content_type, payload_template |-> template,
                                 value_mappings |-> ValueMappings, file_format |-> file_format],
                api_key |-> <<"key">>,
                account_ok |-> TRUE,
                oss |-> oss,
                get_or_upload |-> uploaded,
                params |-> IF files = <<>> THEN p
                           ELSE Put(p, "_upload_files", PyList(files)) ]
    /\ fn_result = <<>>
    /\ fn_pc = "called"

OpenAIInit == OpenAICalls(BOOLEAN, FileFormats)

\* the calls whose payload is followed through the merge: the auth type and
\* the file format have no part in it
MergeInit == OpenAICalls({FALSE}, {"same_name"})

\* build_request when endpoint.api_format is not "gemini"
BuildOpenAIRequest ==
    /\ fn_pc = "called"
    /\ fn_args.endpoint.api_format # "gemini"
    /\ fn_result' = build_request(fn_args)
    /\ fn_pc' = "returned"
    /\ UNCHANGED fn_args

----------------------------------------------------------------------------
(* The parameter dicts of one generate call: which object every step       *)
(* writes (independent_generator.py 182-234, 103-145; generic.py 51-71,    *)
(* 94-146, 445-471).  fn_args is the call, fn_result the objects alive,    *)
(* the writes made and the position of every batch item.                   *)

\* objects are named by the variable that holds them and the item owning it
ParamsObj == <<"params", 0>>
SharedUploadFiles == <<"shared_upload_files", 0>>
CurrentParams(i) == <<"current_params", i>>
PrefixCopy(i) == <<"build_request.params", i>>
OssCopy(i) == <<"_build_openai_request.params", i>>
Base64Copy(i) == <<"_prepare_images_base64.params", i>>

\* a reference to a list object
PyRef(obj) == [t |-> "ref", v |-> obj]

\* the object bound by "x = y.copy()": a new one
Mut_copied(ref, fresh) == ref
copied(ref, fresh) == fresh

\* heap after "x = y.copy()" (a shallow copy: the values are shared)
Copy(heap, ref, fresh) ==
    IF copied(ref, fresh) = ref THEN heap ELSE (fresh :> heap[ref]) @@ heap

\* heap after "obj[k] = value"
Write(heap, obj, k, value) == [heap EXCEPT ![obj] = Put(@, k, value)]

WriteOf(i, obj, k) == [by |-> i, obj |-> obj, key |-> k]

\* the endpoints explored: prompt_prefix, whether the OSS block switches the
\* request to URLs (use_oss_cache with multipart content, the cache enabled
\* and every upload answered), whether the template mentions _chat_content
ShareEndpoints ==
    [prompt_prefix : PromptPrefixes, oss_switches : BOOLEAN, chat_content : BOOLEAN]

ShareItems == 1..MaxItems

\* generate lines 182-217: params and the decoded upload list
ShareInit ==
    /\ \E s \in {0, 7}, files \in {<<>>, <<File4("f1")>>},
          primary \in ShareEndpoints, alternative \in ShareEndpoints :
         /\ fn_args = [seed |-> s, files |-> files, model |-> <<"model">>,
                       primary |-> primary, alternative |-> alternative,
                       params |-> (("prompt" :> PyStr(<<"P">>)) @@ ("seed" :> PyInt(s)))
                                  @@ (IF files = <<>> THEN EmptyDict
                                      ELSE "_upload_files" :> PyRef(SharedUploadFiles))]
         /\ fn_result = [heap |-> (ParamsObj :> fn_args.params)
                                  @@ (SharedUploadFiles :> PyList(files)),
                         writes |-> {},
                         pc |-> [i \in ShareItems |-> "start"],
                         requests |-> [i \in ShareItems |-> <<>>]]
    /\ fn_pc = "generate"

\* process_single_batch lines 226-229: the copy of params and the item's seed
ShareCopyParams(i) ==
    /\ fn_pc = "generate"
    /\ fn_result.pc[i] = "start"
    /\ LET obj == copied(ParamsObj, CurrentParams(i))
           h1 == Copy(fn_result.heap, ParamsObj, CurrentParams(i))
           current_seed == IF fn_args.seed > 0 THEN fn_args.seed + (i - 1) ELSE 0
       IN fn_result' =
            [fn_result EXCEPT
               !.heap = IF current_seed > 0 THEN Write(h1, obj, "seed", PyInt(current_seed))
                        ELSE h1,
               !.writes = IF current_seed > 0 THEN @ \cup {WriteOf(i, obj, "seed")} ELSE @,
               !.pc[i] = "to_thread"]
    /\ UNCHANGED <<fn_args, fn_pc>>

\* the object execute_with_failover of item i has as params
FailoverParams(i) == copied(ParamsObj, CurrentParams(i))

\* execute_with_failover line 114
ShareInject(i) ==
    /\ fn_pc = "generate"
    /\ fn_result.pc[i] = "to_thread"
    /\ fn_result' =
         [fn_result EXCEPT
            !.heap = Write(@, FailoverParams(i), "_model_display_name", PyStr(fn_args.model)),
            !.writes = @ \cup {WriteOf(i, FailoverParams(i), "_model_display_name")},
            !.pc[i] = "primary"]
    /\ UNCHANGED <<fn_args, fn_pc>>

\* build_request lines 59-65
PrefixStep(b, i, e) ==
    IF e.prompt_prefix # <<>> /\ Has(b.heap[b.ref], "prompt")
    THEN LET obj == copied(b.ref, PrefixCopy(i))
         IN [heap |-> Write(Copy(b.heap, b.ref, PrefixCopy(i)), obj, "prompt",
                            PyStr(e.prompt_prefix \o b.heap[b.ref]["prompt"].v)),
             ref |-> obj,
             writes |-> b.writes \cup {WriteOf(i, obj, "prompt")}]
    ELSE b

\* the list the key _upload_files of a params object refers to
upload_files_of(heap, ref) ==
    IF Has(heap[ref], "_upload_files") THEN heap[heap[ref]["_upload_files"].v].v ELSE <<>>

\* _build_openai_request lines 100-136
OssStep(b, i, e) ==
    IF e.oss_switches /\ upload_files_of(b.heap, b.ref) # <<>>
    THEN LET obj == copied(b.ref, OssCopy(i))
             files == upload_files_of(b.heap, b.ref)
             image_urls == [k \in 1..Len(files) |->
                               PyStr(<<"https://", "oss/", files[k].filename>>)]
         IN [heap |-> Write(Copy(b.heap, b.ref, OssCopy(i)), obj, "image_urls",
                            PyList(image_urls)),
             ref |-> obj,
             writes |-> b.writes \cup {WriteOf(i, obj, "image_urls")}]
    ELSE b

\* _build_openai_request lines 145-146 and _prepare_images_base64
Base64Step(b, i, e) ==
    IF e.chat_content
    THEN LET obj == copied(b.ref, Base64Copy(i))
             files == upload_files_of(b.heap, b.ref)
         IN [heap |-> Write(Copy(b.heap, b.ref, Base64Copy(i)), obj, "_images_base64",
                            PyList([k \in 1..Len(files) |-> data_url(files[k])])),
             ref |-> obj,
             writes |-> b.writes \cup {WriteOf(i, obj, "_images_base64")}]
    ELSE b

\* build_request for item i on endpoint e: the heap, the writes and the
\* params object the template is rendered from
BuildFrom(heap, i, e) ==
    Base64Step(OssStep(PrefixStep([heap |-> heap, ref |-> FailoverParams(i), writes |-> {}],
                                  i, e), i, e), i, e)

\* execute_with_failover lines 116-145: adapter.execute(params, mode) on the
\* primary, then on the alternative when the primary failed
ShareExecute(i, ok) ==
    /\ fn_pc = "generate"
    /\ fn_result.pc[i] \in {"primary", "alternative"}
    /\ LET e == IF fn_result.pc[i] = "primary" THEN fn_args.primary ELSE fn_args.alternative
           b == BuildFrom(fn_result.heap, i, e)
       IN fn_result' =
            [fn_result EXCEPT
               !.heap = b.heap,
               !.writes = @ \cup b.writes,
               !.requests[i] = Append(@, [endpoint |-> fn_result.pc[i],
                                          params |-> b.heap[b.ref]]),
               !.pc[i] = IF ok \/ fn_result.pc[i] = "alternative" THEN "returned"
                         ELSE "alternative"]
    /\ UNCHANGED <<fn_args, fn_pc>>

----------------------------------------------------------------------------
(* TaskSyncService.sync_tasks (account/task_sync.py), called from several  *)
(* threads on one service object                                           *)

Syncers == 1..MaxSyncers
TaskIds == {"t1", "t2"}

\* the task_ids lists explored: empty, one id, two ids, the same id twice
TaskIdLists == UNION {[1..n -> TaskIds] : n \in 0..2}

Range(s) == {s[k] : k \in 1..Len(s)}

\* threading.Lock: self._sync_lock can be acquired
Mut_sync_lock_free == TRUE
sync_lock_free == _sync_lock = 0

\* leaving "with self._sync_lock"
Released(s) == IF _sync_lock = s THEN 0 ELSE _sync_lock

SyncInit ==
    /\ task_ids \in [Syncers -> TaskIdLists]
    /\ sync_pc = [s \in Syncers |-> "call"]
    /\ available_task_ids = [s \in Syncers |-> <<>>]
    /\ _syncing_task_ids = {}
    /\ _sync_lock = 0
    /\ sync_return = [s \in Syncers |-> [value |-> 0, raised |-> FALSE]]

SyncIdle ==
    /\ task_ids = <<>>
    /\ sync_pc = <<>>
    /\ available_task_ids = <<>>
    /\ _syncing_task_ids = {}
    /\ _sync_lock = 0
    /\ sync_return = <<>>

\* lines 165-166
SyncCall(s) ==
    /\ sync_pc[s] = "call"
    /\ sync_pc' = [sync_pc EXCEPT ![s] = IF task_ids[s] = <<>> THEN "returned" ELSE "lock"]
    /\ UNCHANGED <<task_ids, available_task_ids, _syncing_task_ids, _sync_lock, sync_return>>

\* line 169: with self._sync_lock (blocks while another thread is inside)
SyncAcquire(s) ==
    /\ sync_pc[s] = "lock"
    /\ sync_lock_free
    /\ _sync_lock' = s
    /\ sync_pc' = [sync_pc EXCEPT ![s] = "filter"]
    /\ UNCHANGED <<task_ids, available_task_ids, _syncing_task_ids, sync_return>>

\* lines 170-174: the ids nobody is syncing; with none left, return 0
SyncFilter(s) ==
    /\ sync_pc[s] = "filter"
    /\ LET available == SelectSeq(task_ids[s], LAMBDA tid : tid \notin _syncing_task_ids)
       IN /\ available_task_ids' = [available_task_ids EXCEPT ![s] = available]
          /\ IF available = <<>>
             THEN /\ sync_pc' = [sync_pc EXCEPT ![s] = "returned"]
                  /\ _sync_lock' = Released(s)
             ELSE /\ sync_pc' = [sync_pc EXCEPT ![s] = "claim"]
                  /\ UNCHANGED _sync_lock
    /\ UNCHANGED <<task_ids, _syncing_task_ids, sync_return>>

\* line 175, and the end of the with block
SyncClaim(s) ==
    /\ sync_pc[s] = "claim"
    /\ _syncing_task_ids' = _syncing_task_ids \cup Range(available_task_ids[s])
    /\ _sync_lock' = Released(s)
    /\ sync_pc' = [sync_pc EXCEPT ![s] = "query"]
    /\ UNCHANGED <<task_ids, available_task_ids, sync_return>>

\* lines 180-183 and 200-202: the status query and its parsing answer or raise
SyncQuery(s, raises) ==
    /\ sync_pc[s] = "query"
    /\ sync_pc' = [sync_pc EXCEPT ![s] = IF raises THEN "finally" ELSE "update"]
    /\ sync_return' = [sync_return EXCEPT ![s] = [value |-> 0, raised |-> raises]]
    /\ UNCHANGED <<task_ids, available_task_ids, _syncing_task_ids, _sync_lock>>

\* lines 186-198: every claimed task is updated; the count of the updated
\* ones is the return value
SyncUpdate(s, success_count) ==
    /\ sync_pc[s] = "update"
    /\ success_count \in 0..Len(available_task_ids[s])
    /\ sync_return' = [sync_return EXCEPT ![s].value = success_count]
    /\ sync_pc' = [sync_pc EXCEPT ![s] = "finally"]
    /\ UNCHANGED <<task_ids, available_task_ids, _syncing_task_ids, _sync_lock>>

\* line 205: with self._sync_lock, in the finally block
SyncFinally(s) ==
    /\ sync_pc[s] = "finally"
    /\ sync_lock_free
    /\ _sync_lock' = s
    /\ sync_pc' = [sync_pc EXCEPT ![s] = "release"]
    /\ UNCHANGED <<task_ids, available_task_ids, _syncing_task_ids, sync_return>>

\* line 206, and the return
SyncRelease(s) ==
    /\ sync_pc[s] = "release"
    /\ _syncing_task_ids' = _syncing_task_ids \ Range(available_task_ids[s])
    /\ _sync_lock' = Released(s)
    /\ sync_pc' = [sync_pc EXCEPT ![s] = "returned"]
    /\ UNCHANGED <<task_ids, available_task_ids, sync_return>>

----------------------------------------------------------------------------
(* GenericAPIAdapter.parse_response and _parse_gemini_response *)

\* an exception leaving the function
PyRaise(name) == [t |-> "raise", v |-> name]

\* path.split('.')
RECURSIVE split_dots(_)
split_dots(path) ==
    IF path = <<>> THEN <<>>
    ELSE (IF Head(path) = "." THEN <<>> ELSE <<Head(path)>>) \o split_dots(Tail(path))

\* key.isdigit() and int(key)
DigitKeys == ("0" :> 0) @@ ("1" :> 1) @@ ("2" :> 2)

\* base.py lines 163-176
RECURSIVE nested_value(_, _)
nested_value(value, keys) ==
    IF keys = <<>> THEN value
    ELSE IF value.t = "dict" THEN nested_value(Get(value.v, Head(keys), PyNone), Tail(keys))
    ELSE IF value.t = "list" /\ Head(keys) \in DOMAIN DigitKeys
    THEN IF DigitKeys[Head(keys)] < Len(value.v)
         THEN nested_value(value.v[DigitKeys[Head(keys)] + 1], Tail(keys))
         ELSE PyRaise("IndexError")
    ELSE PyNone

_get_nested_value(data, path) == nested_value(data, split_dots(path))

\* part.get(a) or part.get(b)
get_either(d, a, b) ==
    IF truthy(Get(d, a, PyNone)) THEN d[a] ELSE Get(d, b, PyNone)

\* lines 583-601: what one part of the candidate adds to images and image_urls
part_images(part) ==
    LET inline_data == get_either(part.v, "inlineData", "inline_data")
        b64_data == IF truthy(inline_data) THEN Get(inline_data.v, "data", PyStr(<<>>))
                    ELSE PyStr(<<>>)
    IN IF truthy(b64_data) /\ b64decode(b64_data) # PyNone
       THEN <<b64decode(b64_data)>> ELSE <<>>

part_urls(part) ==
    LET file_data == get_either(part.v, "fileData", "file_data")
        file_uri == IF truthy(file_data) THEN get_either(file_data.v, "fileUri", "file_uri")
                    ELSE PyNone
    IN IF truthy(file_uri) THEN <<file_uri>> ELSE <<>>

RECURSIVE parts_images(_)
parts_images(parts) ==
    IF parts = <<>> THEN <<>> ELSE part_images(Head(parts)) \o parts_images(Tail(parts))

RECURSIVE parts_urls(_)
parts_urls(parts) ==
    IF parts = <<>> THEN <<>> ELSE part_urls(Head(parts)) \o parts_urls(Tail(parts))

\* lines 603-608: "if not images and not image_urls"
nothing_collected(images, image_urls) == images = <<>> /\ image_urls = <<>>

\* lines 527-617
_parse_gemini_response(data0) ==
    IF Has(data0.v, "errCode") /\ Get(data0.v, "code", PyInt(0)) # PyInt(0)
    THEN Failure(Err("Account error", 0))
    ELSE LET data == IF Has(data0.v, "data") /\ data0.v["data"].t = "dict"
                        /\ ~Has(data0.v, "candidates")
                     THEN data0.v["data"] ELSE data0
             candidates == Get(data.v, "candidates", PyList(<<>>))
         IN IF ~truthy(candidates) THEN Failure(Err("No candidates in Gemini response", 0))
            ELSE IF Get(candidates.v[1].v, "finishReason", PyStr(<<>>)) = PyStr(<<"OTHER">>)
            THEN Failure(Err("Gemini could not generate image", 0))
            ELSE LET content == Get(candidates.v[1].v, "content", PyDict(EmptyDict))
                     parts == Get(content.v, "parts", PyList(<<>>)).v
                 IN IF nothing_collected(parts_images(parts), parts_urls(parts))
                    THEN Failure(Err("No images found in Gemini response", 0))
                    ELSE APIResponse(TRUE, parts_images(parts), parts_urls(parts), NoErr, <<>>, "")

\* lines 473-525; a.data is what response.json() returns, PyRaise when it raises
parse_response(a) ==
    IF a.data.t = "raise" THEN Failure(Err("Invalid JSON response", 0))
    ELSE IF a.endpoint.api_format = "gemini" \/ Has(a.data.v, "candidates")
    THEN _parse_gemini_response(a.data)
    ELSE LET task_id == IF a.mode_config.response_type = "async"
                        THEN _get_nested_value(a.data, a.mode_config.task_id_path)
                        ELSE PyNone
             images_data == _extract_images_from_path(a.data, a.mode_config.response_path)
         IN IF task_id.t = "raise" THEN task_id
            ELSE IF truthy(task_id)
            THEN APIResponse(TRUE, <<>>, <<>>, NoErr, py_str(task_id), "pending")
            ELSE IF images_data = PyNone THEN Failure(Err("No images found in response", 0))
            ELSE APIResponse(TRUE, images_data.v.bytes, images_data.v.urls, NoErr, <<>>, "")

\* parts of a Gemini candidate
GeminiPartValues ==
    { PyDict("text" :> PyStr(<<"a ">>)),
      PyDict("inlineData" :> PyDict("data" :> Base64String)),
      PyDict("inline_data" :> PyDict("data" :> LongTextString)),
      PyDict("inline_data" :> PyDict("data" :> PyStr(<<>>))),
      PyDict("fileData" :> PyDict("fileUri" :> HttpsUrl)),
      PyDict("file_data" :> PyDict("file_uri" :> PyStr(<<>>))),
      PyDict(("inlineData" :> PyDict(EmptyDict)) @@ ("inline_data" :> PyDict("data" :> Base64String))
             @@ ("file_data" :> PyDict("file_uri" :> HttpUrl))) }

GeminiCandidates ==
    {PyDict(("finishReason" :> PyStr(<<r>>)) @@ ("content" :> PyDict("parts" :> PyList(l)))) :
        r \in {"STOP", "OTHER"}, l \in ListsOf(GeminiPartValues, MaxUrls)}
    \cup {PyDict("finishReason" :> PyStr(<<"STOP">>))}

\* Gemini response bodies: bare, wrapped by the account proxy, error envelopes
GeminiResponses ==
    {PyDict("candidates" :> PyList(<<c>>)) : c \in GeminiCandidates}
    \cup {PyDict("data" :> PyDict("candidates" :> PyList(<<c>>))) : c \in GeminiCandidates}
    \cup { PyDict("candidates" :> PyList(<<>>)),
           PyDict(EmptyDict),
           PyDict(("code" :> PyInt(-1)) @@ ("errCode" :> PyInt(-1201))
                  @@ ("errMsg" :> PyStr(<<"Unknown Model!">>))),
           PyDict(("code" :> PyInt(0)) @@ ("errCode" :> PyInt(0))
                  @@ ("candidates" :> PyList(<<PyDict("finishReason" :> PyStr(<<"STOP">>))>>))) }

\* bodies answering an async submission
TaskResponses ==
    { PyDict("task_id" :> PyStr(<<"t1">>)),
      PyDict("task_id" :> PyStr(<<>>)),
      PyDict("task_id" :> PyInt(5)),
      PyDict(("data" :> PyList(<<PyDict("url" :> HttpsUrl)>>)) @@ ("task_id" :> PyNone)),
      PyDict("data" :> PyList(<<PyDict("task_id" :> PyStr(<<"t2">>))>>)),
      PyDict("data" :> PyList(<<>>)) }

TaskIdPaths == { <<"task_id">>, <<"data", ".", "0", ".", "task_id">> }

ParsePaths == { WildcardUrlPath, <<"data", "[", "0", "]", ".", "url">>, <<"data", "[", "*", "]">> }

ParseInit ==
    /\ \E data \in Responses \cup GeminiResponses \cup TaskResponses \cup {PyRaise("JSONDecodeError")},
          api_format \in {"openai", "gemini"}, response_type \in {"sync", "async"},
          task_id_path \in TaskIdPaths, response_path \in ParsePaths :
         fn_args = [ data |-> data,
                     endpoint |-> [api_format |-> api_format],
                     mode_config |-> [response_type |-> response_type,
                                      task_id_path |-> task_id_path,
                                      response_path |-> response_path] ]
    /\ fn_result = <<>>
    /\ fn_pc = "called"

\* execute line 824: result = self.parse_response(response)
ParseResponse ==
    /\ fn_pc = "called"
    /\ fn_result' = parse_response(fn_args)
    /\ fn_pc' = "returned"
    /\ UNCHANGED fn_args

\* no builder, renderer or extractor call in progress
FnIdle ==
    /\ fn_args = <<>>
    /\ fn_result = <<>>
    /\ fn_pc = "off"

GeminiInit ==
    /\ \E p \in GeminiParams, files \in UploadLists, g \in GenerationConfigs,
          x \in GeminiExtraParams, auth \in AuthModes, c \in CacheFlags,
          key \in ApiKeys, prefix \in PromptPrefixes :
         \E uploaded \in [1..Len(files) -> UploadOutcomes] :
            fn_args =
              [ endpoint |-> [api_format |-> "gemini", prompt_prefix |-> prefix,
                              auth_type |-> auth[1], auth_header_format |-> auth[2],
                              use_oss_cache |-> c[2], extra_params |-> x,
                              model_name |-> "gemini-image"],
                mode_config |-> [use_oss_cache |-> c[1], generation_config |-> g],
                api_key |-> key,
                account_ok |-> auth[3],
                get_or_upload |-> uploaded,
                params |-> IF files = <<>> THEN p
                           ELSE Put(p, "_upload_files", PyList(files)) ]
    /\ fn_result = <<>>
    /\ fn_pc = "called"

\* build_request when endpoint.api_format is "gemini"
BuildGeminiRequest ==
    /\ fn_pc = "called"
    /\ fn_args.endpoint.api_format = "gemini"
    /\ fn_result' = build_request(fn_args)
    /\ fn_pc' = "returned"
    /\ UNCHANGED fn_args

MoreIdle == UpIdle /\ PollIdle /\ DlIdle /\ HashIdle /\ FnIdle /\ SyncIdle

----------------------------------------------------------------------------
(* Specifications *)

vars == <<coreVars, moreVars>>

InitExec == ExecInit /\ FoIdle /\ BatchIdle /\ RRIdle /\ MoreIdle

NextExec ==
    \/ \E code \in StatusCodes :
         ExecRetryableStatus(code) /\ UNCHANGED <<cfgVars, foVars, batchVars, rrVars, moreVars>>
    \/ \E code \in StatusCodes :
         ExecTerminalStatus(code) /\ UNCHANGED <<cfgVars, foVars, batchVars, rrVars, moreVars>>
    \/ \E code \in StatusCodes, parsed \in ParseResults :
         \E polled \in PollOutcomes(parsed) :
           ExecSuccessStatus(code, parsed, polled)
           /\ UNCHANGED <<cfgVars, foVars, batchVars, rrVars, moreVars>>
    \/ ExecTimeout /\ UNCHANGED <<cfgVars, foVars, batchVars, rrVars, moreVars>>
    \/ ExecConnectionError /\ UNCHANGED <<cfgVars, foVars, batchVars, rrVars, moreVars>>
    \/ ExecOtherException /\ UNCHANGED <<cfgVars, foVars, batchVars, rrVars, moreVars>>

SpecExec == InitExec /\ [][NextExec]_vars

InitFailover == FoInit /\ ExecIdle /\ BatchIdle /\ RRIdle /\ MoreIdle

NextFailover ==
    \/ \E m \in Modes, override \in Overrides :
         FoGetAdapter(m, override) /\ UNCHANGED <<execVars, batchVars, rrVars, moreVars>>
    \/ \E ok \in BOOLEAN : FoExecutePrimary(ok) /\ UNCHANGED <<execVars, batchVars, rrVars, moreVars>>
    \/ \E ok \in BOOLEAN : FoExecuteAlternative(ok) /\ UNCHANGED <<execVars, batchVars, rrVars, moreVars>>
    \/ FoReturn /\ UNCHANGED <<execVars, batchVars, rrVars, moreVars>>

SpecFailover == InitFailover /\ [][NextFailover]_vars

InitPriority == PriorityInit /\ ExecIdle /\ BatchIdle /\ RRIdle /\ MoreIdle

NextPriority ==
    \/ \E m \in Modes, override \in Overrides :
         FoGetAdapter(m, override) /\ UNCHANGED <<execVars, batchVars, rrVars, moreVars>>
    \/ \E ok \in BOOLEAN : FoExecutePrimary(ok) /\ UNCHANGED <<execVars, batchVars, rrVars, moreVars>>
    \/ \E ok \in BOOLEAN : FoExecuteAlternative(ok) /\ UNCHANGED <<execVars, batchVars, rrVars, moreVars>>
    \/ FoReturn /\ UNCHANGED <<execVars, batchVars, rrVars, moreVars>>
    \/ \E strategy \in {"priority", "round_robin"} :
         UpdateNodeSettings(strategy) /\ UNCHANGED <<execVars, batchVars, rrVars, moreVars>>

SpecPriority == InitPriority /\ [][NextPriority]_vars

InitBatch == BatchInit /\ ExecIdle /\ FoIdle /\ RRIdle /\ MoreIdle

NextBatch ==
    \/ Dispatch /\ UNCHANGED <<execVars, cfgVars, foVars, rrVars, moreVars>>
    \/ \E i \in 0..(MaxBatch - 1), o \in ItemOutcomes, cb_raises \in BOOLEAN :
         ItemCompletes(i, o, cb_raises) /\ UNCHANGED <<execVars, cfgVars, foVars, rrVars, moreVars>>
    \/ GenerateCollects /\ UNCHANGED <<execVars, cfgVars, foVars, rrVars, moreVars>>
    \/ ProcessBatchCollects /\ UNCHANGED <<execVars, cfgVars, foVars, rrVars, moreVars>>

SpecBatch == InitBatch /\ [][NextBatch]_vars

InitRoundRobin == RRInit /\ ExecIdle /\ BatchIdle /\ MoreIdle

NextRoundRobin ==
    \/ \E k \in Threads : RRDispatch(k) /\ UNCHANGED <<execVars, batchVars, moreVars>>
    \/ \E t \in Threads : RRSelect(t) /\ UNCHANGED <<execVars, batchVars, moreVars>>
    \/ \E t \in Threads : RRStore(t) /\ UNCHANGED <<execVars, batchVars, moreVars>>

SpecRoundRobin == InitRoundRobin /\ [][NextRoundRobin]_vars

InitSequential == SequentialInit /\ ExecIdle /\ BatchIdle /\ MoreIdle

NextSequential ==
    \/ \E k \in Threads : RRDispatch(k) /\ UNCHANGED <<execVars, batchVars, moreVars>>
    \/ \E t \in Threads : GetAdapterSequential(t) /\ UNCHANGED <<execVars, batchVars, moreVars>>

SpecSequential == InitSequential /\ [][NextSequential]_vars

CoreIdle == ExecIdle /\ FoIdle /\ BatchIdle /\ RRIdle

InitUpload == UpInit /\ CoreIdle /\ PollIdle /\ DlIdle /\ HashIdle /\ FnIdle /\ SyncIdle

NextUpload ==
    \/ \E t \in Uploaders : UpFastPath(t) /\ UNCHANGED <<coreVars, pollVars, dlVars, hashVars, fnVars, syncVars>>
    \/ \E t \in Uploaders : UpEnterLocks(t) /\ UNCHANGED <<coreVars, pollVars, dlVars, hashVars, fnVars, syncVars>>
    \/ \E t \in Uploaders : UpGetLock(t) /\ UNCHANGED <<coreVars, pollVars, dlVars, hashVars, fnVars, syncVars>>
    \/ \E t \in Uploaders : UpAcquire(t) /\ UNCHANGED <<coreVars, pollVars, dlVars, hashVars, fnVars, syncVars>>
    \/ \E t \in Uploaders : UpRecheck(t) /\ UNCHANGED <<coreVars, pollVars, dlVars, hashVars, fnVars, syncVars>>
    \/ \E t \in Uploaders, ok \in BOOLEAN : UpDoUpload(t, ok) /\ UNCHANGED <<coreVars, pollVars, dlVars, hashVars, fnVars, syncVars>>

SpecUpload == InitUpload /\ [][NextUpload]_vars

InitOss == OssInit /\ CoreIdle /\ PollIdle /\ DlIdle /\ HashIdle /\ FnIdle /\ SyncIdle

NextOss ==
    \/ \E t \in Uploaders : OssCheckCache(t) /\ UNCHANGED <<coreVars, pollVars, dlVars, hashVars, fnVars, syncVars>>
    \/ \E t \in Uploaders, ok \in BOOLEAN : OssPutObject(t, ok) /\ UNCHANGED <<coreVars, pollVars, dlVars, hashVars, fnVars, syncVars>>

SpecOss == InitOss /\ [][NextOss]_vars

InitPoll == PollInit /\ CoreIdle /\ UpIdle /\ DlIdle /\ HashIdle /\ FnIdle /\ SyncIdle

NextPoll ==
    \/ PollLoopTest /\ UNCHANGED <<coreVars, upVars, dlVars, hashVars, fnVars, syncVars>>
    \/ PollSleep /\ UNCHANGED <<coreVars, upVars, dlVars, hashVars, fnVars, syncVars>>
    \/ \E d \in GetDurations : PollNoAnswer(d) /\ UNCHANGED <<coreVars, upVars, dlVars, hashVars, fnVars, syncVars>>
    \/ \E d \in GetDurations, status \in ReportedStatuses, images_data \in ImagesData :
         PollAnswer(d, status, images_data) /\ UNCHANGED <<coreVars, upVars, dlVars, hashVars, fnVars, syncVars>>

\* the polling thread keeps running
SpecPoll == InitPoll /\ [][NextPoll]_vars /\ WF_vars(NextPoll)

InitDownload == DlInit /\ CoreIdle /\ UpIdle /\ PollIdle /\ HashIdle /\ FnIdle /\ SyncIdle

NextDownload ==
    \/ DlTest /\ UNCHANGED <<coreVars, upVars, pollVars, hashVars, fnVars, syncVars>>
    \/ \E o \in GetOutcomes : DlAttempt(o) /\ UNCHANGED <<coreVars, upVars, pollVars, hashVars, fnVars, syncVars>>

SpecDownload == InitDownload /\ [][NextDownload]_vars

InitHash == HashInit /\ CoreIdle /\ UpIdle /\ PollIdle /\ DlIdle /\ FnIdle /\ SyncIdle

NextHash ==
    \/ \E f \in Fields : \E v \in FieldValues(f) :
         ChangeField(f, v) /\ UNCHANGED <<coreVars, upVars, pollVars, dlVars, fnVars, syncVars>>
    \/ \E d \in Dicts : ReorderKeys(d) /\ UNCHANGED <<coreVars, upVars, pollVars, dlVars, fnVars, syncVars>>
    \/ ComputeHashes /\ UNCHANGED <<coreVars, upVars, pollVars, dlVars, fnVars, syncVars>>

SpecHash == InitHash /\ [][NextHash]_vars

InitHashPair == HashPairInit /\ CoreIdle /\ UpIdle /\ PollIdle /\ DlIdle /\ FnIdle /\ SyncIdle

NextHashPair ==
    \/ ComputeBothHashes /\ UNCHANGED <<coreVars, upVars, pollVars, dlVars, fnVars, syncVars>>

SpecHashPair == InitHashPair /\ [][NextHashPair]_vars

InitNode == NodeInit /\ CoreIdle /\ UpIdle /\ PollIdle /\ DlIdle /\ HashIdle /\ SyncIdle

NextNode ==
    \/ NodeSmartCache /\ UNCHANGED <<coreVars, upVars, pollVars, dlVars, hashVars, syncVars>>
    \/ \E loaded \in BOOLEAN : NodeLoadPersisted(loaded) /\ UNCHANGED <<coreVars, upVars, pollVars, dlVars, hashVars, syncVars>>
    \/ NodeCallApi /\ UNCHANGED <<coreVars, upVars, pollVars, dlVars, hashVars, syncVars>>

SpecNode == InitNode /\ [][NextNode]_vars

InitGemini == GeminiInit /\ CoreIdle /\ UpIdle /\ PollIdle /\ DlIdle /\ HashIdle /\ SyncIdle

NextGemini ==
    \/ BuildGeminiRequest /\ UNCHANGED <<coreVars, upVars, pollVars, dlVars, hashVars, syncVars>>

SpecGemini == InitGemini /\ [][NextGemini]_vars

InitExtract == ExtractInit /\ CoreIdle /\ UpIdle /\ PollIdle /\ DlIdle /\ HashIdle /\ SyncIdle

NextExtract ==
    \/ ExtractImages /\ UNCHANGED <<coreVars, upVars, pollVars, dlVars, hashVars, syncVars>>

SpecExtract == InitExtract /\ [][NextExtract]_vars

InitTemplate == TemplateInit /\ CoreIdle /\ UpIdle /\ PollIdle /\ DlIdle /\ HashIdle /\ SyncIdle

NextTemplate ==
    \/ PrepareImages /\ UNCHANGED <<coreVars, upVars, pollVars, dlVars, hashVars, syncVars>>
    \/ Render /\ UNCHANGED <<coreVars, upVars, pollVars, dlVars, hashVars, syncVars>>
    \/ RenderAgain /\ UNCHANGED <<coreVars, upVars, pollVars, dlVars, hashVars, syncVars>>

SpecTemplate == InitTemplate /\ [][NextTemplate]_vars

InitBuild == (GeminiInit \/ OpenAIInit) /\ CoreIdle /\ UpIdle /\ PollIdle /\ DlIdle /\ HashIdle /\ SyncIdle

NextBuild ==
    \/ BuildGeminiRequest /\ UNCHANGED <<coreVars, upVars, pollVars, dlVars, hashVars, syncVars>>
    \/ BuildOpenAIRequest /\ UNCHANGED <<coreVars, upVars, pollVars, dlVars, hashVars, syncVars>>

SpecBuild == InitBuild /\ [][NextBuild]_vars

InitParse == ParseInit /\ CoreIdle /\ UpIdle /\ PollIdle /\ DlIdle /\ HashIdle /\ SyncIdle

NextParse ==
    \/ ParseResponse /\ UNCHANGED <<coreVars, upVars, pollVars, dlVars, hashVars, syncVars>>

SpecParse == InitParse /\ [][NextParse]_vars

InitMerge == MergeInit /\ CoreIdle /\ UpIdle /\ PollIdle /\ DlIdle /\ HashIdle /\ SyncIdle

NextMerge ==
    \/ BuildOpenAIRequest /\ UNCHANGED <<coreVars, upVars, pollVars, dlVars, hashVars, syncVars>>

SpecMerge == InitMerge /\ [][NextMerge]_vars

InitShare == ShareInit /\ CoreIdle /\ UpIdle /\ PollIdle /\ DlIdle /\ HashIdle /\ SyncIdle

NextShare ==
    \/ \E i \in ShareItems : ShareCopyParams(i) /\ UNCHANGED <<coreVars, upVars, pollVars, dlVars, hashVars, syncVars>>
    \/ \E i \in ShareItems : ShareInject(i) /\ UNCHANGED <<coreVars, upVars, pollVars, dlVars, hashVars, syncVars>>
    \/ \E i \in ShareItems, ok \in BOOLEAN : ShareExecute(i, ok) /\ UNCHANGED <<coreVars, upVars, pollVars, dlVars, hashVars, syncVars>>

SpecShare == InitShare /\ [][NextShare]_vars

InitSync == SyncInit /\ CoreIdle /\ UpIdle /\ PollIdle /\ DlIdle /\ HashIdle /\ FnIdle

NextSync ==
    \/ \E s \in Syncers : SyncCall(s) /\ UNCHANGED <<coreVars, upVars, pollVars, dlVars, hashVars, fnVars>>
    \/ \E s \in Syncers : SyncAcquire(s) /\ UNCHANGED <<coreVars, upVars, pollVars, dlVars, hashVars, fnVars>>
    \/ \E s \in Syncers : SyncFilter(s) /\ UNCHANGED <<coreVars, upVars, pollVars, dlVars, hashVars, fnVars>>
    \/ \E s \in Syncers : SyncClaim(s) /\ UNCHANGED <<coreVars, upVars, pollVars, dlVars, hashVars, fnVars>>
    \/ \E s \in Syncers, raises \in BOOLEAN : SyncQuery(s, raises) /\ UNCHANGED <<coreVars, upVars, pollVars, dlVars, hashVars, fnVars>>
    \/ \E s \in Syncers, n \in 0..2 : SyncUpdate(s, n) /\ UNCHANGED <<coreVars, upVars, pollVars, dlVars, hashVars, fnVars>>
    \/ \E s \in Syncers : SyncFinally(s) /\ UNCHANGED <<coreVars, upVars, pollVars, dlVars, hashVars, fnVars>>
    \/ \E s \in Syncers : SyncRelease(s) /\ UNCHANGED <<coreVars, upVars, pollVars, dlVars, hashVars, fnVars>>

SpecSync == InitSync /\ [][NextSync]_vars

----------------------------------------------------------------------------
(* Claims about DynamicImageGenerationNode.generate (SpecNode) *)

\* C40: generate completes for every combination of its hidden inputs, and
\* whenever it goes on to the API call the _cached_hash it returns is the hash
\* of the current parameters.
C40_GenerateCompletes ==
    fn_pc = "done" =>
        /\ fn_result.raised = "none"
        /\ fn_result.api_path
              => fn_result.ui_cached_hash = current_params_hash(fn_args.args)

----------------------------------------------------------------------------
(* Claims about TaskSyncService.sync_tasks (SpecSync) *)

\* the ids an invocation is syncing: from its claim to the end of its try block
SyncingIds(s) ==
    IF sync_pc[s] \in {"query", "update"} THEN Range(available_task_ids[s]) ELSE {}

\* the ids an invocation has claimed and not yet given back
ClaimedIds(s) ==
    IF sync_pc[s] \in {"query", "update", "finally", "release"}
    THEN Range(available_task_ids[s]) ELSE {}

\* C35: no task id is synced by two invocations at the same time, and
\* _syncing_task_ids holds exactly the ids claimed by invocations that have
\* not ended: an invocation that has returned, after a normal run or after
\* the status query raised, has left none of its ids behind.
C35_NoDuplicateSync ==
    /\ \A s, u \in Syncers : s # u => SyncingIds(s) \cap SyncingIds(u) = {}
    /\ _syncing_task_ids = UNION {ClaimedIds(s) : s \in Syncers}
    /\ (\A s \in Syncers : sync_pc[s] = "returned") => _syncing_task_ids = {}

\* invocation 1 claimed both ids and its query raised; invocation 2, called
\* meanwhile with one of them, skipped it and returned 0; both have returned
\* and the set is empty again
C35_Witness ==
    /\ task_ids[1] = <<"t1", "t2">> /\ task_ids[2] = <<"t1">>
    /\ sync_pc[1] = "returned" /\ sync_pc[2] = "returned"
    /\ sync_return[1].raised
    /\ available_task_ids[1] = <<"t1", "t2">>
    /\ available_task_ids[2] = <<>>
    /\ _syncing_task_ids = {}

----------------------------------------------------------------------------
(* Claims about the parameter objects of a batch (SpecShare) *)

\* the seed item i sends
DerivedSeed(i) == IF fn_args.seed > 0 THEN fn_args.seed + (i - 1) ELSE 0

\* the endpoint a request of an item was built for
RequestEndpoint(r) == IF r.endpoint = "primary" THEN fn_args.primary ELSE fn_args.alternative

\* the upload list and the base parameters are as generate made them
BaseUntouched ==
    /\ fn_result.heap[ParamsObj] = fn_args.params
    /\ fn_result.heap[SharedUploadFiles] = PyList(fn_args.files)

\* every write of an item went to an object of that item
WritesArePerItem == \A w \in fn_result.writes : w.obj[2] = w.by

\* the copy an item hands to execute_with_failover carries the item's seed
\* and the injected display name, and none of the changes of a request build
ItemParamsKeepBase(i) ==
    fn_result.pc[i] # "start" =>
        /\ CurrentParams(i) \in DOMAIN fn_result.heap
        /\ LET cur == fn_result.heap[CurrentParams(i)]
           IN /\ cur["prompt"] = fn_args.params["prompt"]
              /\ cur["seed"] = PyInt(DerivedSeed(i))
              /\ DOMAIN cur \subseteq DOMAIN fn_args.params \cup {"_model_display_name"}
              /\ Has(cur, "_upload_files") => cur["_upload_files"] = PyRef(SharedUploadFiles)

\* a request is rendered from the base parameters with the item's seed and
\* the changes of its own endpoint, each applied once
RequestSeesOwnChanges(i, r) ==
    LET e == RequestEndpoint(r)
    IN /\ r.params["prompt"].v = e.prompt_prefix \o fn_args.params["prompt"].v
       /\ r.params["seed"] = PyInt(DerivedSeed(i))
       /\ Has(r.params, "image_urls") <=> (e.oss_switches /\ fn_args.files # <<>>)
       /\ Has(r.params, "_images_base64") <=> e.chat_content
       /\ Has(r.params, "_images_base64")
             => Len(r.params["_images_base64"].v) = Len(fn_args.files)

\* C33: no batch item modifies the shared upload list or the base
\* parameters; the derived seed, the injected internal key, the prompt
\* prefix, the OSS image_urls and the prepared base64 list are written to
\* objects of the item, so no sibling sees them and a failover alternative
\* that rebuilds the request does not get them a second time.
C33_SharedReadOnly ==
    fn_pc = "generate" =>
        /\ BaseUntouched
        /\ WritesArePerItem
        /\ \A i \in ShareItems :
              /\ ItemParamsKeepBase(i)
              /\ fn_result.pc[i] # "start" =>
                    \A k \in 1..Len(fn_result.requests[i]) :
                        RequestSeesOwnChanges(i, fn_result.requests[i][k])

\* two items with a seed and an image, both endpoints with a prefix, OSS
\* URLs and a chat template: item 1 was rebuilt for the alternative after
\* item 2 had built its request
C33_Witness ==
    /\ fn_pc = "generate"
    /\ fn_args.seed > 0 /\ fn_args.files # <<>>
    /\ fn_args.primary.prompt_prefix # <<>> /\ fn_args.alternative.prompt_prefix # <<>>
    /\ fn_args.primary.oss_switches /\ fn_args.primary.chat_content
    /\ fn_args.alternative.oss_switches /\ fn_args.alternative.chat_content
    /\ Len(fn_result.requests[1]) = 2
    /\ Len(fn_result.requests[2]) = 1
    /\ fn_result.pc[2] = "returned"
    /\ Cardinality(fn_result.writes) >= 8

----------------------------------------------------------------------------
(* Claims about GenericAPIAdapter.execute (SpecExec) *)

AllAttemptsRetryable ==
    \A i \in 1..Len(outcomes) : RetryableOutcome(outcomes[i])

\* C1: when every attempt fails retryably (HTTP 429/502/503/504, timeout or
\* connection error), execute makes exactly max_retries + 1 HTTP attempts and
\* then returns a failure; the loop never holds more than max_retries attempts.
C1_RetriesExhausted ==
    AllAttemptsRetryable =>
        /\ exec_pc = "loop" => calls <= max_retries
        /\ exec_pc = "done" => calls = max_retries + 1 /\ ~exec_result.success

C1_Witness ==
    /\ exec_pc = "done"
    /\ max_retries = 3
    /\ calls = 4
    /\ \A i \in 1..Len(outcomes) : outcomes[i] = Status(503)
    /\ exec_result = Failure(Err("HTTP", 503))

\* C2: a non-2xx status outside {429,502,503,504} ends execute at that attempt:
\* it is the last attempt, the result is a failure whose message carries the
\* status code, and as the first response it means one call and no sleep.
C2_TerminalStatusNotRetried ==
    \A i \in 1..Len(outcomes) :
        ( /\ outcomes[i].kind = "status"
          /\ ~(200 <= outcomes[i].code /\ outcomes[i].code < 300)
          /\ outcomes[i].code \notin {429, 502, 503, 504} )
        => /\ i = Len(outcomes)
           /\ exec_pc = "done"
           /\ ~exec_result.success
           /\ exec_result.error_message = Err("HTTP", outcomes[i].code)
           /\ i = 1 => (calls = 1 /\ sleeps = <<>>)

C2_Witness ==
    /\ exec_pc = "done"
    /\ outcomes = <<Status(500)>>
    /\ calls = 1
    /\ sleeps = <<>>
    /\ exec_result = Failure(Err("HTTP", 500))

\* the failures parse_response can return for a 2xx body: parse errors and
\* provider business errors
ParseFailures == {r \in ParseResults : ~r.success}

\* an attempt was answered with a 2xx status
SuccessStatusAt(i) == outcomes[i].kind = "status" /\ is_success(outcomes[i].code)

\* a 2xx answer is the last attempt of the call, whatever it parsed into
SuccessStatusEndsCall ==
    \A i \in 1..Len(outcomes) :
        SuccessStatusAt(i) => i = Len(outcomes) /\ exec_pc = "done" /\ calls = i

\* the step that handles a 2xx answer whose body parses into a failure
\* returns that failure, makes no sleep and leaves the attempt counter alone
ParseFailureIsReturned ==
    \A code \in StatusCodes, parsed \in ParseFailures :
        ExecSuccessStatus(code, parsed, parsed)
        => /\ exec_result' = parsed
           /\ exec_pc' = "done"
           /\ calls' = calls + 1
           /\ UNCHANGED <<attempt, sleeps>>

\* once execute has returned there is no further attempt
NoAttemptAfterReturn == exec_pc = "done" => UNCHANGED <<calls, exec_result>>

\* C28: a 2xx response that fails to parse into images or signals an
\* application failure is not retried: execute returns the failure that
\* parse_response produced after that attempt, with its message, and makes no
\* further attempt, even when retries are left.
C28_ParseFailureNotRetried ==
    /\ []SuccessStatusEndsCall
    /\ [][ParseFailureIsReturned /\ NoAttemptAfterReturn]_vars

\* an HTTP 503 was retried, the second attempt was answered 200 with an
\* account error envelope, and execute returned that failure with two of its
\* four attempts unused
C28_Witness ==
    /\ exec_pc = "done"
    /\ max_retries = 3
    /\ outcomes = <<Status(503), Status(200)>>
    /\ calls = 2
    /\ exec_result = Failure(Err("Account error", 0))

\* the initial response parsed into a task id with pending status
PendingResponses == {r \in ParseResults : r.task_id # "" /\ r.status = "pending"}

\* the failures polling ends with
PollFailures == {"No images in completed task", "Task failed", "Polling timeout"}

\* what execute holds as its result is never a pending response
NoPendingResult == exec_result.status # "pending"

\* the step that handles a 2xx answer parsed into a pending task returns what
\* polling ended with: its images or URLs, or one of its failures
PendingIsPolled ==
    \A code \in StatusCodes, parsed \in PendingResponses, polled \in PollResults :
        ExecSuccessStatus(code, parsed, polled)
        => /\ exec_pc' = "done"
           /\ exec_result'.status = ""
           /\ exec_result'.success = polled.success
           /\ exec_result'.image_urls = polled.image_urls
           /\ IF polled.success
              THEN polled.images # <<>> => exec_result'.images = polled.images
              ELSE exec_result'.error_message.kind \in PollFailures

\* C37: execute never returns a response whose status is 'pending': when the
\* initial response parses into a task id with pending status, the result
\* returned is the terminal outcome of polling (success, failure or timeout).
C37_NeverReturnsPending ==
    /\ []NoPendingResult
    /\ [][PendingIsPolled]_vars

\* a 429 was retried, the second attempt was accepted as a task, and the
\* result returned is the polling timeout
C37_Witness ==
    /\ exec_pc = "done"
    /\ outcomes = <<Status(429), Status(200)>>
    /\ exec_result = Failure(Err("Polling timeout", 0))

\* C38: every successful response returned by execute carries at least one
\* image's bytes, so a response with no usable image is a failure.
C38_SuccessHasImage ==
    (exec_pc = "done" /\ exec_result.success) => exec_result.images # <<>>

----------------------------------------------------------------------------
(* Claims about execute_with_failover (SpecFailover) *)

\* position before/after in "ascending priority, ties in configuration order"
Precedes(i, j) ==
    \/ api_endpoints[i].priority < api_endpoints[j].priority
    \/ api_endpoints[i].priority = api_endpoints[j].priority /\ i < j

\* the endpoints on which adapter.execute ran, in call order
Tried == [k \in 1..Len(executed) |-> executed[k].ep]

CallsTo(i) == {k \in 1..Len(executed) : executed[k].ep = i}

\* a model with two endpoints: the first and the second by priority
FirstOfTwo == IF Precedes(2, 1) THEN 2 ELSE 1
SecondOfTwo == 3 - FirstOfTwo

FirstFailsSecondSucceeds ==
    /\ Len(api_endpoints) = 2
    /\ \A k \in CallsTo(FirstOfTwo) : ~executed[k].ok
    /\ \A k \in CallsTo(SecondOfTwo) : executed[k].ok

FailoverCall == fo_pc = "done" /\ endpoint_override = "" /\ auto_failover

\* C3 as stated: with failover on and no override, two endpoints, the first
\* always failing and the second always succeeding, the call returns the
\* second endpoint's success. Read in the claim's favour: both endpoints are
\* usable (their providers have API keys, both configure the requested mode).
C3_Original ==
    ( /\ FailoverCall
      /\ FirstFailsSecondSucceeds
      /\ \A i \in 1..2 : HasKey(i) /\ mode \in api_endpoints[i].modes )
    => fo_result.success /\ fo_result.by = SecondOfTwo

\* the second endpoint is tried: it is the primary itself, or the first is the
\* primary and the second has an API key, another provider and the requested mode
SecondIsTried ==
    \/ adapter.ep = SecondOfTwo
    \/ /\ adapter.ep = FirstOfTwo
       /\ HasKey(SecondOfTwo)
       /\ ProviderOf(SecondOfTwo) # ProviderOf(FirstOfTwo)
       /\ mode \in api_endpoints[SecondOfTwo].modes

\* C3 (amended): under the same premises the call returns the second endpoint's
\* success exactly when the second endpoint is tried; otherwise, in particular
\* when both endpoints belong to one provider, it returns "All providers failed".
C3_FailoverToSecond ==
    (FailoverCall /\ FirstFailsSecondSucceeds)
    => IF SecondIsTried
       THEN fo_result.success /\ fo_result.by = SecondOfTwo
       ELSE fo_result = AllProvidersFailed

C3_Witness ==
    /\ FailoverCall
    /\ FirstFailsSecondSucceeds
    /\ Tried = <<FirstOfTwo, SecondOfTwo>>
    /\ fo_result = SuccessBy(SecondOfTwo)

\* C4: with an endpoint override no second endpoint is ever executed, and a
\* failed execution ends the call with a failure, whatever auto_failover says.
C4_OverrideDisablesFailover ==
    endpoint_override # "" =>
        /\ Len(executed) <= 1
        /\ alternatives = <<>>
        /\ (Len(executed) = 1 /\ ~executed[1].ok)
              => (fo_pc = "done" /\ ~fo_result.success)

\* an override whose execution failed although failover is on and another
\* provider's endpoint with a key and the requested mode exists
C4_Witness ==
    /\ endpoint_override # ""
    /\ auto_failover
    /\ fo_pc = "done"
    /\ Len(executed) = 1
    /\ ~executed[1].ok
    /\ fo_result = AllProvidersFailed
    /\ \E i \in 1..Len(api_endpoints) :
           /\ ProviderOf(i) # ProviderOf(executed[1].ep)
           /\ HasKey(i)
           /\ mode \in api_endpoints[i].modes

PrimaryFailed ==
    /\ FailoverCall
    /\ adapter # None
    /\ executed # <<>>
    /\ ~executed[1].ok

\* the calls after the primary stop at the first success
StopsAtFirstSuccess ==
    /\ \A k \in 1..(Len(executed) - 1) : ~executed[k].ok
    /\ fo_result.success =>
          executed[Len(executed)].ok /\ fo_result.by = executed[Len(executed)].ep
    /\ ~fo_result.success =>
          ~executed[Len(executed)].ok /\ fo_result = AllProvidersFailed

\* the alternatives tried are, in ascending priority order and without gaps,
\* the endpoints of the set candidates
TriedInOrderAmong(candidates) ==
    /\ Tried[1] = adapter.ep
    /\ \A k \in 2..Len(executed) : Tried[k] \in candidates
    /\ \A j, k \in 2..Len(executed) : j < k => Precedes(Tried[j], Tried[k])
    /\ \A i \in candidates :
          \/ \E k \in 2..Len(executed) : Tried[k] = i
          \/ fo_result.success /\ Precedes(fo_result.by, i)

\* C5 as stated: after the primary failed, the remaining endpoints are tried
\* in ascending priority order, skipping those of the provider that failed.
C5_Original ==
    PrimaryFailed =>
        /\ StopsAtFirstSuccess
        /\ TriedInOrderAmong({i \in 1..Len(api_endpoints) :
                                  /\ i # adapter.ep
                                  /\ ProviderOf(i) # ProviderOf(adapter.ep)})

\* C5 (amended): the endpoints tried after the primary are those whose provider
\* differs from the primary's provider, has an API key, and which configure
\* the requested mode, in ascending priority order, up to the first success;
\* if none succeeds the result is "All providers failed".
C5_FailoverOrder ==
    PrimaryFailed =>
        /\ StopsAtFirstSuccess
        /\ TriedInOrderAmong({i \in 1..Len(api_endpoints) :
                                  /\ ProviderOf(i) # ProviderOf(adapter.ep)
                                  /\ HasKey(i)
                                  /\ mode \in api_endpoints[i].modes})

\* two alternatives were tried after the primary, in priority order that is
\* not the configuration order
C5_Witness ==
    /\ PrimaryFailed
    /\ Len(executed) = 3
    /\ Tried[2] > Tried[3]
    /\ fo_result = AllProvidersFailed

----------------------------------------------------------------------------
\* the call is past get_adapter: mode, endpoint_override and adapter are set
Selected == fo_pc \in {"primary", "alternatives", "done"}

\* endpoint i configures the requested mode or the other one
HasEitherMode(i) ==
    \/ mode \in api_endpoints[i].modes
    \/ fallback_mode(mode) \in api_endpoints[i].modes

\* the requested mode where endpoint i has it, the other mode otherwise
SubstitutedMode(i) ==
    IF mode \in api_endpoints[i].modes THEN mode ELSE fallback_mode(mode)

LacksRequestedMode(i) ==
    /\ mode \notin api_endpoints[i].modes
    /\ fallback_mode(mode) \in api_endpoints[i].modes

\* the endpoints a primary can be: with a key and one of the two modes
UsableAsPrimary == {i \in 1..Len(api_endpoints) : HasKey(i) /\ HasEitherMode(i)}

FirstUsableAsPrimary ==
    CHOOSE i \in UsableAsPrimary : \A j \in UsableAsPrimary \ {i} : Precedes(i, j)

\* the endpoint at the round-robin position get_adapter has just used
RoundRobinTarget ==
    LET n == Len(api_endpoints)
        position == ((_endpoint_index + n - 1) % n) + 1
    IN  CHOOSE i \in 1..n :
            Cardinality({j \in 1..n : j # i /\ Precedes(j, i)}) = position - 1

\* the calls made on failover alternatives (all calls but the primary's)
AlternativeCalls == {k \in 1..Len(executed) : k > 1 \/ adapter = None}

\* C22 as stated: every candidate that lacks the requested mode but has the
\* other one is used with the other mode instead of being skipped, the
\* failover alternatives included: when all providers have failed, every
\* endpoint with a key whose provider is not the primary's has been tried.
C22_Original ==
    (Selected /\ failover_enabled(endpoint_override) /\ fo_result = AllProvidersFailed)
    => \A i \in 1..Len(api_endpoints) :
          (HasKey(i) /\ HasEitherMode(i)
             /\ (adapter # None => ProviderOf(i) # ProviderOf(adapter.ep)))
          => \E k \in 1..Len(executed) :
                executed[k].ep = i /\ executed[k].config = SubstitutedMode(i)

\* C22 (amended): the primary, whether chosen by priority or by round-robin
\* index, is not skipped for lacking the requested mode when it has the other
\* one, and is used with the other mode's configuration; a failover
\* alternative is only ever an endpoint that configures the requested mode,
\* used with that mode.
C22_FallbackForPrimaryOnly ==
    Selected =>
        /\ adapter # None => adapter.config = SubstitutedMode(adapter.ep)
        /\ (endpoint_override = "" /\ auto_endpoint_mode = "priority"
              /\ UsableAsPrimary # {})
           => adapter # None /\ adapter.ep = FirstUsableAsPrimary
        /\ (endpoint_override = "" /\ auto_endpoint_mode = "round_robin"
              /\ api_endpoints # <<>>
              /\ HasKey(RoundRobinTarget) /\ HasEitherMode(RoundRobinTarget))
           => adapter # None /\ adapter.ep = RoundRobinTarget
        /\ \A k \in AlternativeCalls :
              /\ executed[k].config = mode
              /\ mode \in api_endpoints[executed[k].ep].modes

\* a primary lacking the requested mode was used with the other mode and
\* failed; another provider's endpoint with a key, lacking the requested mode
\* too, was not tried and the call ended with "All providers failed"
C22_Witness ==
    /\ Selected
    /\ failover_enabled(endpoint_override)
    /\ adapter # None
    /\ LacksRequestedMode(adapter.ep)
    /\ adapter.config = fallback_mode(mode)
    /\ Len(executed) = 1
    /\ fo_result = AllProvidersFailed
    /\ \E i \in 1..Len(api_endpoints) :
          HasKey(i) /\ ProviderOf(i) # ProviderOf(adapter.ep) /\ LacksRequestedMode(i)

\* the sort key of endpoint i as the claim gives it: a missing priority is 999
PriorityKey(i) ==
    IF api_endpoints[i].priority = NoPriority THEN 999 ELSE api_endpoints[i].priority

\* i comes before j in ascending priority, ties in configuration order
ComesBefore(i, j) == PriorityKey(i) < PriorityKey(j) \/ (PriorityKey(i) = PriorityKey(j) /\ i < j)

PriorityCall == Selected /\ endpoint_override = "" /\ auto_endpoint_mode = "priority"

\* the endpoints whose provider has an API key
Keyed == {i \in 1..Len(api_endpoints) : HasKey(i)}

\* those of them that configure the requested mode or the other one
KeyedWithMode == {i \in Keyed : HasEitherMode(i)}

FirstOf(S) == CHOOSE i \in S : \A j \in S \ {i} : ComesBefore(i, j)

\* C26 as stated: in priority mode without override the primary is the first
\* endpoint, in ascending priority order, whose provider has an API key.
C26_Original ==
    (PriorityCall /\ Keyed # {}) => adapter # None /\ adapter.ep = FirstOf(Keyed)

\* C26 (amended): in priority mode without override the primary of every call
\* is the first endpoint, in ascending priority order (missing priority = 999,
\* ties in configuration order), whose provider has an API key and which
\* configures the requested mode or the other mode; there is no primary when
\* no such endpoint exists. The round-robin counter has no part in it.
C26_PriorityPrimary ==
    PriorityCall =>
        IF KeyedWithMode = {} THEN adapter = None
        ELSE adapter # None /\ adapter.ep = FirstOf(KeyedWithMode)

\* a priority-mode call made after round-robin calls have advanced the
\* counter: the primary is the second endpoint listed, whose priority is
\* missing, chosen before the first one listed, whose priority is 1000, and
\* it is not the endpoint the counter points at
C26_Witness ==
    /\ PriorityCall
    /\ _endpoint_index = 1
    /\ Len(api_endpoints) = 2
    /\ api_endpoints[2].priority = NoPriority
    /\ api_endpoints[1].priority = 1000
    /\ Keyed = {1, 2}
    /\ adapter # None
    /\ adapter.ep = 2
    /\ get_api_endpoints[_endpoint_index + 1] # adapter.ep

\* the error_message of the failed result of a call: the provider's own text
error_message_of(call) == "provider error " \o ToString(call.ep)

\* the call has returned a failure after trying at least one candidate
Exhausted == fo_pc = "done" /\ ~fo_result.success /\ executed # <<>>

\* C27 as stated: when every candidate has been tried and failed, the returned
\* failure carries the error message of the last provider tried.
C27_Original ==
    Exhausted => fo_result.error_message = error_message_of(executed[Len(executed)])

\* C27 (amended): when every candidate has been tried and failed, the returned
\* failure carries the fixed message "All providers failed" and the message of
\* no provider that was tried.
C27_UndifferentiatedFailure ==
    Exhausted =>
        /\ fo_result.error_message = "All providers failed"
        /\ \A k \in 1..Len(executed) :
              fo_result.error_message # error_message_of(executed[k])

\* the primary and two alternatives were tried and all failed
C27_Witness ==
    /\ Exhausted
    /\ adapter # None
    /\ Len(executed) = 3
    /\ \A k \in 1..3 : ~executed[k].ok

\* the endpoints that can serve a call in the current mode, and those among
\* them that carry the name given as the override
Usable == {i \in 1..Len(api_endpoints) : HasKey(i) /\ ModeOrFallback(i, mode) # ""}
Named == {i \in Usable : NameOf(i) = endpoint_override}
IsFirstOf(S, i) == i \in S /\ \A j \in S : ~Precedes(j, i)

OverrideCall == endpoint_override # "" /\ executed # <<>>

----------------------------------------------------------------------------
(* Claims about the batch orchestrators (SpecBatch) *)

BatchDone == batch_pc = "done"

ItemIndices == DOMAIN items

\* item i put at least one output into the aggregate
Contributed(i) == \E k \in DOMAIN items[i].outcome.images : items[i].outcome.images[k] = "ok"

PositionIn(seq, x) == CHOOSE k \in 1..Len(seq) : seq[k] = x

\* C6: the aggregate output of a batch is ordered by batch index whatever the
\* completion order of its items: outputs of item i precede those of item j
\* whenever i < j.
C6_OutputsInBatchOrder ==
    BatchDone =>
        \A a, b \in 1..Len(batch_return.outputs) :
            a < b => batch_return.outputs[a].item <= batch_return.outputs[b].item

\* item 2 completed before item 0, both produced an output, and item 0's output
\* is at the first position of the aggregate
C6_Witness ==
    /\ BatchDone
    /\ batch_count = 3
    /\ Contributed(0) /\ Contributed(2)
    /\ PositionIn(completed, 2) < PositionIn(completed, 0)
    /\ batch_return.outputs[1].item = 0

\* the outputs the items contributed, concatenated in batch-index order
RECURSIVE OutputsFrom(_)
OutputsFrom(i) ==
    IF i >= batch_count THEN <<>>
    ELSE [k \in 1..Cardinality({x \in DOMAIN items[i].outcome.images :
                                   items[i].outcome.images[x] = "ok"}) |->
             [item |-> i,
              image |-> CHOOSE x \in DOMAIN items[i].outcome.images :
                          /\ items[i].outcome.images[x] = "ok"
                          /\ Cardinality({y \in 1..x : items[i].outcome.images[y] = "ok"}) = k]]
         \o OutputsFrom(i + 1)

LinesOf(kind) == {k \in 1..Len(batch_return.log) : batch_return.log[k].line = kind}

Failing(i) == items[i].outcome.kind \in {"failure", "exception"}

\* C8: a failing item (failure response or raised exception) never raises out
\* of the orchestrator and never discards siblings: each failing item
\* contributes a failure line to the log, and the outputs of every successful
\* sibling are in the result.
C8_FailingItemIsLogged ==
    BatchDone =>
        /\ ~batch_return.raised
        /\ Cardinality(LinesOf("Batch failed") \cup LinesOf("Batch error"))
             = Cardinality({i \in ItemIndices : Failing(i)})
        /\ \A i \in ItemIndices :
             Contributed(i) => \E k \in 1..Len(batch_return.outputs) :
                                  batch_return.outputs[k].item = i

\* C9: the request of item i carries seed base_seed + i when base_seed > 0,
\* and seed 0 when base_seed = 0, for every extra_params.
C9_ItemSeeds ==
    batch_pc # "start" =>
        \A i \in ItemIndices :
            items[i].request_seed = IF seed > 0 THEN seed + i ELSE 0

\* the batch indices on_batch_complete was called with, in call order
Notified == [k \in 1..Len(progress) |-> progress[k].batch_idx]

CallsFor(i) == {k \in 1..Len(progress) : progress[k].batch_idx = i}

\* C23: the progress callback of generate is invoked exactly once for every
\* batch item, successful or failed, after the item has completed and before
\* generate returns, in completion order, with the item's index and
\* batch_count; a callback that raises takes nothing from the aggregate.
C23_ProgressOncePerItem ==
    orchestrator = "generate" =>
        /\ \A k \in 1..Len(progress) :
              /\ items[progress[k].batch_idx].pc = "completed"
              /\ progress[k].total = batch_count
        /\ BatchDone =>
              /\ \A i \in ItemIndices : Cardinality(CallsFor(i)) = 1
              /\ Notified = completed
              /\ \A k \in 1..Len(progress) :
                    batch_return.success
                    => \A x \in 1..Len(progress[k].previews) :
                          \E y \in 1..Len(batch_return.outputs) :
                             batch_return.outputs[y] = progress[k].previews[x]

----------------------------------------------------------------------------
(* Claims about the round-robin counter (SpecRoundRobin) *)

Callers == {t \in Threads : thread_pc[t] # "idle"}

\* C10: no update of the round-robin counter is lost: once the k items of a
\* batch have selected, the counter is (start + k) mod n, and no two of them
\* read the same counter value within one rotation.
C10_NoLostUpdate ==
    (Callers # {} /\ \A t \in Callers : thread_pc[t] = "returned") =>
        /\ _endpoint_index = (start_idx + Cardinality(Callers)) % Len(api_endpoints)
        /\ Cardinality(Callers) <= Len(api_endpoints) =>
             \A t, u \in Callers : t # u => current_idx[t] # current_idx[u]

\* the callers that have their endpoint, in the order of their calls
Served == {t \in Threads : thread_pc[t] = "returned"}

EndpointCount == Len(api_endpoints)

\* the n consecutive selections that start with caller t
Window(t) == t..(t + EndpointCount - 1)

\* C25: in round-robin mode with n usable endpoints, the k-th of a series of
\* sequential selections that starts with the counter at c uses index
\* (c + k - 1) mod n of the priority-sorted list, with the requested mode;
\* any n consecutive selections pick each endpoint exactly once; the stored
\* counter is always in 0..n-1.
C25_RoundRobinRotation ==
    /\ _endpoint_index \in 0..(EndpointCount - 1)
    /\ \A t \in Served :
          /\ current_idx[t] = (start_idx + t - 1) % EndpointCount
          /\ endpoint_info[t] = Info(get_api_endpoints[current_idx[t] + 1], mode)
    /\ \A t \in Served :
          Window(t) \subseteq Served
          => /\ {endpoint_info[u].ep : u \in Window(t)} = 1..EndpointCount
             /\ \A u, w \in Window(t) : u # w => endpoint_info[u].ep # endpoint_info[w].ep

\* three sequential selections over three endpoints whose priority order is
\* not the configuration order, starting at counter 2 and wrapping around
C25_Witness ==
    /\ EndpointCount = 3
    /\ get_api_endpoints # <<1, 2, 3>>
    /\ start_idx = 2
    /\ Served = {1, 2, 3}
    /\ current_idx = <<2, 0, 1>>
    /\ _endpoint_index = 2

----------------------------------------------------------------------------
(* Claims about GeminiFilesCache (SpecUpload) *)

UploadsOf(h) == {k \in 1..Len(uploads) : uploads[k].hash = h}

\* C11: for threads calling get_or_upload with the same bytes, at most one
\* _do_upload of that hash is in progress at any time, and once an upload has
\* succeeded and been cached no later call uploads: a later upload of the
\* same hash starts only after every earlier one has failed, and every call
\* that returned a uri returned the cached one.
C11_OneUploadPerHash ==
    /\ \A h \in Hashes : \A j, k \in UploadsOf(h) : j < k => uploads[j].status = "failed"
    /\ \A h \in Hashes :
         Cardinality({t \in Uploaders : up_pc[t] = "uploading" /\ file_hash[t] = h}) <= 1
    /\ \A t \in Uploaders :
         (up_pc[t] = "returned" /\ up_return[t] # NoUri)
            => up_return[t] = files_cache[file_hash[t]]

\* three threads raced on the same bytes, one uploaded, the others waited for
\* the lock and returned the cached uri
C11_Witness ==
    /\ \A t \in Uploaders : file_hash[t] = "h1" /\ up_pc[t] = "returned"
    /\ Len(uploads) = 1
    /\ uploads[1].status = "cached"
    /\ \A t \in Uploaders : up_return[t] = FileUri("h1", 1)
    /\ _upload_locks = {"h1"}

\* the threads that hold the upload lock of a hash, and those inside _do_upload
HoldsUploadLock(t) == up_pc[t] \in {"locked", "uploading"}
Uploading(t) == up_pc[t] = "uploading"

\* a thread waiting for the upload lock of its hash can take it unless a
\* thread with the same hash holds it
DisjointHashesDoNotContend ==
    \A u \in Uploaders :
        (/\ up_pc[u] = "wait"
         /\ \A t \in Uploaders : HoldsUploadLock(t) => file_hash[t] # file_hash[u])
        => ENABLED UpAcquire(u)

\* _locks_lock is held only between entering the block and the lookup: by no
\* thread that waits for, holds or has released an upload lock
LocksLockOnlyForLookup ==
    /\ \A t \in Uploaders : _locks_lock = t => up_pc[t] = "lookup"
    /\ \A t \in Uploaders : up_pc[t] = "lookup" => _locks_lock = t

\* a thread that wants the lock table gets in unless another thread is at
\* the lookup, whatever uploads are in progress
UploadsDoNotBlockLookup ==
    \A u \in Uploaders :
        (up_pc[u] = "locks" /\ \A t \in Uploaders : up_pc[t] # "lookup")
        => ENABLED UpEnterLocks(u)

\* C30: upload locks on disjoint hashes do not contend: a thread uploading
\* bytes with hash A never makes a thread with hash B # A wait; _locks_lock is
\* held only for the table lookup and is released before any upload starts.
C30_DisjointHashesDoNotContend ==
    /\ DisjointHashesDoNotContend
    /\ LocksLockOnlyForLookup
    /\ UploadsDoNotBlockLookup

\* uploads of two different hashes are in progress at the same time while a
\* third thread is inside the lock-table block
C30_Witness ==
    /\ \E t, u \in Uploaders :
          Uploading(t) /\ Uploading(u) /\ file_hash[t] # file_hash[u]
    /\ \E w \in Uploaders : up_pc[w] = "lookup" /\ _locks_lock = w

----------------------------------------------------------------------------
(* Claims about OSSImageCache (SpecOss) *)

\* C31: concurrent batch items building their requests for the same bytes
\* upload those bytes at most once, and every item that has returned got the
\* same URL.
C31_UploadedOnce ==
    \A h \in Hashes :
        /\ Cardinality(UploadsOf(h)) <= 1
        /\ \A t, u \in Uploaders :
               (file_hash[t] = h /\ file_hash[u] = h
                   /\ up_pc[t] = "returned" /\ up_pc[u] = "returned")
               => up_return[t] = up_return[u]

----------------------------------------------------------------------------
(* Claims about _poll_for_result (SpecPoll) *)

PollReturned == poll_pc = "returned"

ReportedSuccess == normalized(poll_status) = normalized(success_value)
ReportedFailure == ~ReportedSuccess /\ normalized(poll_status) \in FAILURE_STATUSES

\* C12 as stated: polling returns success when the task reports the success
\* status.
C12_Original ==
    (PollReturned /\ ReportedSuccess) => poll_result.success

\* what polling returns for the last status it read
PollResultMatches ==
    PollReturned =>
        IF poll_result.success
        THEN ReportedSuccess /\ (poll_result.images # <<>> \/ poll_result.image_urls # <<>>)
        ELSE \/ poll_result.error_message.kind = "No images in completed task"
                /\ ReportedSuccess
             \/ poll_result.error_message.kind = "Task failed" /\ ReportedFailure
             \/ /\ poll_result.error_message.kind = "Polling timeout"
                /\ poll_elapsed >= poll_timeout
                /\ ~ReportedSuccess /\ ~ReportedFailure

\* C12: every execution of _poll_for_result eventually returns: with success
\* when the task reports the success status and the answer carries an image,
\* with the failure "No images in completed task" when it reports the success
\* status without an image, with "Task failed" when it reports a failure
\* status, and with the polling-timeout failure when the polling window
\* (600 s) has passed without either.
C12_PollingTerminates == []PollResultMatches /\ <>PollReturned

\* polling ran out of its window after an answer that was neither success
\* nor failure
C12_Witness ==
    /\ PollReturned
    /\ poll_result = Failure(Err("Polling timeout", 0))
    /\ poll_status = <<"P", "E", "N", "D", "I", "N", "G">>
    /\ poll_elapsed >= poll_timeout

\* a status string was read from the last poll answer
StatusRead == poll_status # NoneValue

\* two strings are equal when case and surrounding blanks are ignored
SameIgnoringCase(a, b) == upper(strip(a)) = upper(strip(b))

MatchesSuccessValue == StatusRead /\ SameIgnoringCase(poll_status, success_value)

\* the status is one of the failure statuses the configuration lists
MatchesConfiguredFailure ==
    StatusRead /\ \E f \in failure_values : SameIgnoringCase(poll_status, f)

\* the status is one of FAILURE, FAILED, ERROR
MatchesFixedFailure ==
    /\ StatusRead
    /\ \E f \in {<<"F", "A", "I", "L", "U", "R", "E">>, <<"F", "A", "I", "L", "E", "D">>,
                 <<"E", "R", "R", "O", "R">>} : SameIgnoringCase(poll_status, f)

ExplicitFailure == PollReturned /\ poll_result = Failure(Err("Task failed", 0))

\* polling ended on the answer: with its images, or with the failure that
\* it holds none
EndedWithExtraction ==
    /\ PollReturned
    /\ \/ poll_result.success /\ (poll_result.images # <<>> \/ poll_result.image_urls # <<>>)
       \/ poll_result = Failure(Err("No images in completed task", 0))

----------------------------------------------------------------------------
(* Claims about the download of image URLs (SpecDownload) *)

NeedsDownload == dl_input.success /\ dl_input.image_urls # <<>> /\ dl_input.images = <<>>

AttemptsOn(u) == {k \in 1..Len(dl_log) : dl_log[k].url = u}

\* some attempt on the URL at position u answered with a body
Fetched(u) == \E k \in AttemptsOn(u) : dl_log[k].outcome = "content"

AllAttemptsFailed(u) == \A k \in AttemptsOn(u) : dl_log[k].outcome = "exception"

\* the images of the fetched URLs from position u on, in URL order
RECURSIVE KeptFrom(_)
KeptFrom(u) ==
    IF u > Len(dl_input.image_urls) THEN <<>>
    ELSE (IF Fetched(u) THEN <<[src |-> "url", n |-> dl_input.image_urls[u]]>> ELSE <<>>)
         \o KeptFrom(u + 1)

\* C13: when a successful result carries image URLs and no inline bytes, each
\* URL is downloaded with at most 3 attempts, a URL whose attempts all fail is
\* dropped, the result stays successful, and the images of the other URLs are
\* kept in URL order.
C13_DownloadsDropFailures ==
    (dl_pc = "returned" /\ NeedsDownload) =>
        /\ dl_result.success
        /\ \A u \in 1..Len(dl_input.image_urls) :
             /\ Cardinality(AttemptsOn(u)) \in 1..3
             /\ AllAttemptsFailed(u) => Cardinality(AttemptsOn(u)) = 3
        /\ dl_result.images = KeptFrom(1)
        /\ dl_result.image_urls = dl_input.image_urls

\* two URLs: every attempt on the first failed, the second was fetched at its
\* second attempt, and only the second URL's image is in the result
C13_Witness ==
    /\ dl_pc = "returned"
    /\ NeedsDownload
    /\ Len(dl_input.image_urls) = 2
    /\ AllAttemptsFailed(1)
    /\ Cardinality(AttemptsOn(2)) = 2
    /\ dl_result.images = <<[src |-> "url", n |-> dl_input.image_urls[2]]>>

----------------------------------------------------------------------------
(* Claims about _compute_params_hash (SpecHash) *)

Hashed == hash_pc = "hashed"

\* C14: two requests with equal model, prompt, batch_count and seed whose
\* extra_params hold the same key/value pairs in a different order have the
\* identical hash.
C14_KeyOrderInvariant ==
    (Hashed /\ changed = "key order") => params_hash[1] = params_hash[2]

\* three keys were reordered and the hash was computed for both orders
C14_Witness ==
    /\ Hashed
    /\ changed = "key order"
    /\ Len(request.extra_params) = 3
    /\ request.extra_params[1][1] = <<"b">>
    /\ other_request.extra_params[1][1] = SeedKey
    /\ params_hash[1] = params_hash[2]
    /\ params_hash[1] # NoHash

\* C15 as stated: changing any one of model, prompt, batch_count, seed or
\* extra_params while the other fields stay equal changes the hash.
C15_Original ==
    (Hashed /\ changed \in Fields) => params_hash[1] # params_hash[2]

\* the items of extra_params that enter the hash
HashedItems(d) == {item \in Items(d) : item[1] # SeedKey}

\* C15: changing one of model, prompt, batch_count or seed changes the hash;
\* changing extra_params changes the hash exactly when the two dicts differ in
\* an item other than "seed" (the "seed" entry of extra_params is left out of
\* the hash, and None hashes like the empty dict).
C15_FieldChangeChangesHash ==
    (Hashed /\ changed \in Fields) =>
        IF changed = "extra_params"
        THEN (params_hash[1] # params_hash[2])
                <=> (HashedItems(request.extra_params) # HashedItems(other_request.extra_params))
        ELSE params_hash[1] # params_hash[2]

\* extra_params holding a "seed" entry was changed in another item, for a
\* model name that contains the separator, and the hash changed
C15_Witness ==
    /\ Hashed
    /\ changed = "extra_params"
    /\ HashedItems(request.extra_params) # HashedItems(other_request.extra_params)
    /\ SeedKey \in Keys(dict_or_empty(request.extra_params))
    /\ request.model = <<"m", "|", "p">>
    /\ params_hash[1] # params_hash[2]

\* the two hashes agree when the extra parameters are a dict
DictHashesAgree ==
    (hash_pc = "compared" /\ request.extra_params # NoneDict) => params_hash[1] = params_hash[2]

\* C34: for every model, prompt, batch_count, seed and extra parameters, the
\* hash IndependentGenerator computes from the extra parameters (a dict or
\* None) equals the hash DynamicImageNodeBase computes from their JSON text.
C34_HashesAgree ==
    hash_pc = "compared" => params_hash[1] = params_hash[2]

----------------------------------------------------------------------------
(* Claims about the Gemini request builder (SpecGemini) *)

GeminiBuilt == fn_pc = "returned" /\ fn_args.endpoint.api_format = "gemini"

\* generationConfig of the built request
BuiltGenerationConfig == fn_result["json"].generationConfig

\* the aspectRatio entries of generationConfig.imageConfig (none or one)
BuiltAspectRatios ==
    IF Has(BuiltGenerationConfig, "imageConfig")
       /\ Has(BuiltGenerationConfig["imageConfig"].v, "aspectRatio")
    THEN {BuiltGenerationConfig["imageConfig"].v["aspectRatio"]}
    ELSE {}

\* C16: in every Gemini request built by build_request, an input
\* aspect_ratio of "auto" leaves no aspectRatio "auto" in
\* generationConfig.imageConfig, and any other non-empty input aspect_ratio
\* is the value of imageConfig.aspectRatio, verbatim.
C16_AspectRatioAutoSkipped ==
    GeminiBuilt /\ Has(fn_args.params, "aspect_ratio") =>
        LET ar == fn_args.params["aspect_ratio"]
        IN /\ ar = PyStr(<<"auto">>) => PyStr(<<"auto">>) \notin BuiltAspectRatios
           /\ ar # PyStr(<<"auto">>) /\ ar # PyStr(<<>>) => BuiltAspectRatios = {ar}

\* a request built from aspect_ratio "auto" and an image_size, so that an
\* imageConfig is sent
C16_Witness ==
    /\ GeminiBuilt
    /\ Has(fn_args.params, "aspect_ratio")
    /\ fn_args.params["aspect_ratio"] = PyStr(<<"auto">>)
    /\ Has(fn_args.params, "image_size")
    /\ Has(BuiltGenerationConfig, "imageConfig")
    /\ BuiltAspectRatios = {}

\* the parts of the single content of the built request
BuiltParts == fn_result["json"].contents[1].parts

UploadedFiles == Get(fn_args.params, "_upload_files", PyList(<<>>)).v

\* the remote cache is consulted: it is switched on for the mode or the
\* endpoint, and the endpoint has its own Google API key
CacheConsulted ==
    /\ fn_args.mode_config.use_oss_cache \/ fn_args.endpoint.use_oss_cache
    /\ fn_args.endpoint.auth_type # "account"
    /\ fn_args.api_key # <<>>

ReturnsUri(i) == CacheConsulted /\ fn_args.get_or_upload[i] = "uri"

\* the base64 text sent for an image: the one prepared with the upload list
\* when there is one, the encoding of the bytes otherwise
InlineData(file) ==
    IF file.len >= 4 /\ file.cached_b64 # PyNone THEN file.cached_b64.v
    ELSE <<"b64(", file.file_bytes, ")">>

\* C32: contents[0].parts of a Gemini request is the prompt text part
\* followed by exactly one part per uploaded image, in input order: a
\* file_data part with the URI when the remote cache returned one for the
\* image, an inline_data base64 part of the image otherwise.
C32_OnePartPerImage ==
    GeminiBuilt =>
        /\ Len(fn_result["json"].contents) = 1
        /\ Len(BuiltParts) = 1 + Len(UploadedFiles)
        /\ DOMAIN BuiltParts[1] = {"text"}
        /\ BuiltParts[1].text = fn_args.endpoint.prompt_prefix \o fn_args.params["prompt"].v
        /\ \A i \in 1..Len(UploadedFiles) :
              IF ReturnsUri(i)
              THEN /\ DOMAIN BuiltParts[i + 1] = {"file_data"}
                   /\ BuiltParts[i + 1].file_data.file_uri
                          = <<"uri(", UploadedFiles[i].file_bytes, ")">>
                   /\ BuiltParts[i + 1].file_data.mime_type = UploadedFiles[i].mime_type
              ELSE /\ DOMAIN BuiltParts[i + 1] = {"inline_data"}
                   /\ BuiltParts[i + 1].inline_data.data = InlineData(UploadedFiles[i])
                   /\ BuiltParts[i + 1].inline_data.mime_type = UploadedFiles[i].mime_type

\* two images with the cache consulted: the first got a URI, the upload of
\* the second raised
C32_Witness ==
    /\ GeminiBuilt
    /\ Len(UploadedFiles) = 2
    /\ CacheConsulted
    /\ fn_args.get_or_upload = <<"uri", "raises">>
    /\ DOMAIN BuiltParts[2] = {"file_data"}
    /\ DOMAIN BuiltParts[3] = {"inline_data"}

----------------------------------------------------------------------------
(* Claims about response-path extraction (SpecExtract) *)

\* extraction with the path data[*].url from a list of objects that all
\* have a "url" has returned
WildcardExtracted ==
    /\ fn_pc = "returned"
    /\ fn_args.path = WildcardUrlPath
    /\ fn_args.data.v["data"].t = "list"
    /\ \A i \in 1..Len(fn_args.data.v["data"].v) :
          LET item == fn_args.data.v["data"].v[i]
          IN item.t = "dict" /\ Has(item.v, "url")

\* the values under "url" of the list items, in source order
UrlsInSource ==
    [i \in 1..Len(fn_args.data.v["data"].v) |-> fn_args.data.v["data"].v[i].v["url"]]

\* the URLs returned (none when the extraction returns None)
ReturnedUrls == IF fn_result = PyNone THEN <<>> ELSE fn_result.v.urls

ReturnedBytes == IF fn_result = PyNone THEN <<>> ELSE fn_result.v.bytes

\* C17 as stated: data[*].url returns the value under "url" of every list
\* item, in source order.
C17_Original == WildcardExtracted => ReturnedUrls = UrlsInSource

\* what one value contributes to the URL list: itself when it is a string
\* starting with http:// or https://, the http(s) targets of the Markdown
\* images in it, the "url" of an object, nothing otherwise
UrlsRecognised(value) ==
    CASE value.t = "str" ->
            IF md_matches(value.v) # <<>> THEN http_only(md_matches(value.v))
            ELSE IF is_http(value.v) THEN <<value>>
            ELSE <<>>
      [] value.t = "dict" -> IF Has(value.v, "url") THEN <<value.v["url"]>> ELSE <<>>
      [] OTHER -> <<>>

\* what one value contributes to the bytes list: the decoded bytes of a
\* string longer than 100 characters that is neither a URL nor Markdown, or
\* of the "b64_json" of an object without "url", where decoding succeeds
BytesRecognised(value) ==
    CASE value.t = "str" ->
            IF md_matches(value.v) = <<>> /\ ~is_http(value.v) /\ is_long(value.v)
               /\ b64decode(value) # PyNone
            THEN <<b64decode(value)>> ELSE <<>>
      [] value.t = "dict" ->
            IF ~Has(value.v, "url") /\ Has(value.v, "b64_json")
               /\ b64decode(value.v["b64_json"]) # PyNone
            THEN <<b64decode(value.v["b64_json"])>> ELSE <<>>
      [] OTHER -> <<>>

RECURSIVE Flatten(_)
Flatten(ss) == IF ss = <<>> THEN <<>> ELSE Head(ss) \o Flatten(Tail(ss))

\* C17: data[*].url visits every list item in source order and collects
\* from the value under "url" only what it recognises as an image: URLs in
\* the URL list, decoded base64 in the bytes list, each in source order; a
\* value of another shape (such as "u1") is skipped, and None is returned
\* when nothing was collected.
C17_WildcardCollectsImages ==
    WildcardExtracted =>
        /\ ReturnedUrls = Flatten([i \in DOMAIN UrlsInSource |-> UrlsRecognised(UrlsInSource[i])])
        /\ ReturnedBytes = Flatten([i \in DOMAIN UrlsInSource |-> BytesRecognised(UrlsInSource[i])])
        /\ fn_result = PyNone <=> ReturnedUrls = <<>> /\ ReturnedBytes = <<>>

\* the first list item holds the short string "u1" under "url", the last one
\* a URL: the short string is skipped and the URL is returned
C17_Witness ==
    /\ WildcardExtracted
    /\ Len(UrlsInSource) = MaxUrls
    /\ UrlsInSource[1] = ShortString
    /\ UrlsInSource[MaxUrls] = HttpUrl
    /\ ReturnedUrls # <<>>
    /\ ReturnedUrls[Len(ReturnedUrls)] = HttpUrl
    /\ Len(ReturnedUrls) < Len(UrlsInSource)

----------------------------------------------------------------------------
(* Claims about the template engine (SpecTemplate) *)

RenderedTwice == fn_pc = "again"

\* a rendered value holds a template reference
RECURSIVE has_reference(_)
has_reference(value) ==
    CASE value.t = "str" -> \E i \in 1..Len(value.v) : value.v[i] \in RefTokens
      [] value.t = "dict" -> \E k \in DOMAIN value.v : has_reference(value.v[k])
      [] value.t = "list" -> \E i \in 1..Len(value.v) : has_reference(value.v[i])
      [] OTHER -> FALSE

\* a rendered value holds an object with a None entry
RECURSIVE has_none_entry(_)
has_none_entry(value) ==
    CASE value.t = "dict" ->
            \E k \in DOMAIN value.v : value.v[k] = PyNone \/ has_none_entry(value.v[k])
      [] value.t = "list" -> \E i \in 1..Len(value.v) : has_none_entry(value.v[i])
      [] OTHER -> FALSE

\* C18 as stated: whenever render(t, p) holds no template reference,
\* rendering it again with p returns it unchanged.
C18_Original ==
    RenderedTwice /\ ~has_reference(fn_result[1]) => fn_result[2] = fn_result[1]

\* C18: whenever render(t, p) holds no template reference and no object
\* with a None entry (which only a substituted raw value can bring in),
\* rendering it again with p returns it unchanged.
C18_RenderIdempotent ==
    RenderedTwice /\ ~has_reference(fn_result[1]) /\ ~has_none_entry(fn_result[1])
        => fn_result[2] = fn_result[1]

\* an object template with a substituted value and a dropped key was
\* rendered twice
C18_Witness ==
    /\ RenderedTwice
    /\ fn_args.template.t = "dict"
    /\ Has(fn_args.template.v, "f")
    /\ fn_args.template.v["f"] = PyStr(<<"a ", "{{x}}">>)
    /\ Has(fn_args.params, "x")
    /\ fn_args.params["x"] = PyInt(5)
    /\ fn_result[1] = PyDict(("f" :> PyStr(<<"a ", "5">>)) @@ ("g" :> PyInt(1)))
    /\ fn_result[2] = fn_result[1]

\* the template {{_chat_content}} was rendered with prompt "P"
ChatContentBuilt ==
    /\ fn_pc \in {"returned", "again"}
    /\ fn_args.template = ChatTemplate
    /\ Has(fn_args.params, "prompt")
    /\ fn_args.params["prompt"] = PyStr(<<"P">>)

\* the images prepared from the uploaded files
PreparedImages == fn_args.params["_images_base64"].v

UploadedCount ==
    IF Has(fn_args.params, "_upload_files") THEN Len(fn_args.params["_upload_files"].v) ELSE 0

\* C19: _chat_content with prompt "P" yields the block
\* {"type":"text","text":"P"} followed by exactly one image_url block per
\* prepared image, in input order; with no image it is the text block alone.
C19_ChatContentBlocks ==
    ChatContentBuilt =>
        /\ Len(PreparedImages) = UploadedCount
        /\ fn_result[1] =
             PyList(<<PyDict(("type" :> PyStr(<<"text">>)) @@ ("text" :> PyStr(<<"P">>)))>>
                    \o [i \in 1..Len(PreparedImages) |->
                          PyDict(("type" :> PyStr(<<"image_url">>))
                                 @@ ("image_url" :> PyDict("url" :> PreparedImages[i])))])

\* chat content built from two different uploaded images
C19_Witness ==
    /\ ChatContentBuilt
    /\ UploadedCount = 2
    /\ PreparedImages[1] # PreparedImages[2]
    /\ Len(fn_result[1].v) = 3

\* the keys of an object template whose value is exactly one reference to a
\* plain variable that params does not hold
MissingReferenceKeys ==
    IF fn_args.template.t # "dict" THEN {}
    ELSE {k \in DOMAIN fn_args.template.v :
            /\ fn_args.template.v[k].t = "str"
            /\ Len(fn_args.template.v[k].v) = 1
            /\ fn_args.template.v[k].v[1] \in RefTokens
            /\ ~is_internal(VarOf[fn_args.template.v[k].v[1]])
            /\ ~Has(fn_args.params, VarOf[fn_args.template.v[k].v[1]])}

\* C24: rendering an object template in which a value is a reference to a
\* variable absent from params keeps that key in the rendered object, with
\* an empty or unchanged value.
C24_MissingVariableKeepsKey ==
    fn_pc \in {"returned", "again"} =>
        \A k \in MissingReferenceKeys :
            /\ Has(fn_result[1].v, k)
            /\ fn_result[1].v[k] \in {PyStr(<<>>), fn_args.template.v[k]}

----------------------------------------------------------------------------
(* Claims about the request descriptor (SpecBuild) *)

RequestBuilt == fn_pc = "returned"

\* the content type the request is sent with: JSON for a Gemini request and
\* for a request switched to image URLs, the configured one otherwise
EffectiveContentType ==
    IF fn_args.endpoint.api_format = "gemini" THEN "application/json"
    ELSE effective_content_type(fn_args, prefixed(fn_args.endpoint, fn_args.params))

BodyKeys == DOMAIN fn_result \cap {"json", "data", "files"}

\* C20: a request descriptor returned by build_request carries exactly one
\* body representation, the one of its content type: 'json' alone for
\* application/json (Gemini and OSS-switched requests included), 'data'
\* with 'files' for multipart/form-data, 'data' alone otherwise; never
\* 'json' together with 'data' or 'files'.
C20_OneBodyRepresentation ==
    RequestBuilt =>
        BodyKeys = CASE EffectiveContentType = "application/json" -> {"json"}
                     [] EffectiveContentType = "multipart/form-data" -> {"data", "files"}
                     [] OTHER -> {"data"}

\* a multipart request with images that was switched to JSON with image URLs
C20_Witness ==
    /\ RequestBuilt
    /\ fn_args.endpoint.api_format = "openai"
    /\ fn_args.mode_config.content_type = "multipart/form-data"
    /\ EffectiveContentType = "application/json"
    /\ Has(fn_result["json"], "image_urls")
    /\ Len(fn_result["json"]["image_urls"].v) = 2


OpenAIBuilt == fn_pc = "returned" /\ fn_args.endpoint.api_format = "openai"

\* the params the payload template is rendered from: with the prompt
\* prefix, the OSS image_urls and the prepared base64 list
RenderedFrom ==
    LET p0 == prefixed(fn_args.endpoint, fn_args.params)
        urls == oss_image_urls(fn_args, p0)
        p1 == IF urls # <<>> THEN Put(p0, "image_urls", PyList(urls)) ELSE p0
    IN IF mentions_chat_content(fn_args.mode_config.payload_template)
       THEN _prepare_images_base64(p1) ELSE p1

\* the payload as the template engine rendered it
RenderedPayload ==
    render(fn_args.mode_config.payload_template, RenderedFrom,
           fn_args.mode_config.value_mappings).v

\* the payload sent: the JSON body, or the form fields (which leave out the
\* keys starting with '_')
SentPayload == IF Has(fn_result, "json") THEN fn_result["json"] ELSE fn_result["data"]

\* the keys of a payload that are sent
SentKeys(payload) ==
    IF Has(fn_result, "files") THEN {k \in DOMAIN payload : ~is_internal(k)} ELSE DOMAIN payload

ModelAdded(k) == k = "model" /\ fn_args.endpoint.model_name # ""

PassesThrough(from, k) ==
    /\ k \in DOMAIN from
    /\ ~is_internal(k)
    /\ from[k] # PyNone
    /\ from[k] # PyStr(<<>>)

\* C36: in the payload of an OpenAI request every key rendered from the
\* template keeps its rendered value; 'model' is the endpoint's model_name
\* only when the template rendered no 'model'; a pass-through parameter is
\* the value of a key only when neither of those gave the key; an endpoint
\* extra_params entry is the value only when none of the three did.
C36_MergeNeverOverwrites ==
    OpenAIBuilt =>
        LET from == RenderedFrom
            rendered == render(fn_args.mode_config.payload_template, from,
                               fn_args.mode_config.value_mappings).v
            sent == SentPayload
        IN /\ SentKeys(rendered) \subseteq DOMAIN sent
           /\ \A k \in DOMAIN sent :
                 CASE k \in DOMAIN rendered -> sent[k] = rendered[k]
                   [] ModelAdded(k) -> sent[k] = PyStr(<<fn_args.endpoint.model_name>>)
                   [] PassesThrough(from, k) -> sent[k] = from[k]
                   [] OTHER -> /\ k \in DOMAIN fn_args.endpoint.extra_params
                               /\ sent[k] = fn_args.endpoint.extra_params[k]

\* a template with its own model, an endpoint model_name, a requested model
\* and an extra_params model: the template's value is sent, and the other
\* extra_params entry is added
C36_Witness ==
    /\ OpenAIBuilt
    /\ Has(RenderedPayload, "model")
    /\ fn_args.endpoint.model_name # ""
    /\ Has(fn_args.params, "model")
    /\ Has(fn_args.endpoint.extra_params, "model")
    /\ SentPayload["model"] = PyStr(<<"configured-model">>)
    /\ SentPayload["response_format"] = PyStr(<<"url">>)

----------------------------------------------------------------------------
(* Claims about parse_response (SpecParse) *)

\* parse_response has returned an APIResponse (it did not raise)
Parsed == fn_pc = "returned" /\ "success" \in DOMAIN fn_result

\* the response is parsed by the generic (non-Gemini) branch
GenericBody ==
    /\ fn_args.data.t = "dict"
    /\ fn_args.endpoint.api_format # "gemini"
    /\ ~Has(fn_args.data.v, "candidates")

\* neither the task-id path (async) nor the response path matches anything
PathsMatchNothing ==
    /\ GenericBody
    /\ _extract_images_from_path(fn_args.data, fn_args.mode_config.response_path) = PyNone
    /\ fn_args.mode_config.response_type = "async" =>
          ~truthy(_get_nested_value(fn_args.data, fn_args.mode_config.task_id_path))

\* the successful response carries an image: decoded bytes, or a URL that
\* is a non-empty string
CarriesImage ==
    \/ fn_result.images # <<>>
    \/ \E i \in 1..Len(fn_result.image_urls) :
          fn_result.image_urls[i].t = "str" /\ fn_result.image_urls[i].v # <<>>

\* C21: parse_response never returns an empty success: a successful
\* APIResponse carries a task id with status "pending" or at least one
\* image (bytes or URL), and a response in which the path expression
\* matches nothing is a failure.
C21_NoEmptySuccess ==
    Parsed =>
        /\ fn_result.success =>
              \/ fn_result.task_id # <<>> /\ fn_result.status = "pending"
              \/ CarriesImage
        /\ PathsMatchNothing => ~fn_result.success

====
